---- MODULE Spec2Model ----
(***************************************************************************)
(* A model of the inference core of octopus: the haplotype tree's bounded  *)
(* extension, the haplotype likelihood cache, the threshold filter         *)
(* expression parser and the tumour model's seeding and ploidy dispatch.   *)
(* Each component has its own specification (SpecTree, SpecCache,          *)
(* SpecFilter, SpecSeeds, SpecTumour); the variables of the other          *)
(* components stay at their initial value.                                 *)
(***************************************************************************)
EXTENDS Integers, Sequences, FiniteSets, TLC

VARIABLES
    \* ---- haplotype tree / extend_tree_until
    tree,             \* HaplotypeTree: the set of root-to-leaf allele paths
    elements,         \* the range [first, last) given to extend_tree_until
    element_type,     \* "Allele" or "Variant": the overload that is chosen
    max_haplotypes,   \* the bound given to extend_tree_until
    it,               \* position of std::find_if in the range (1-based, last = Len+1)
    ret,              \* the iterator extend_tree_until returned
    applied,          \* the positions whose element was extended into the tree
    start_haplotypes, \* tree.num_haplotypes() when the call was made
    pcTree,           \* "idle", "find", "found", "returned"
    \* ---- HaplotypeLikelihoodCache
    cache_,           \* haplotype -> per sample index, the per read log likelihoods
    sample_indices_,  \* sample -> index into the vectors of cache_
    read_iterators_,  \* scratch list of (first, last, num_reads), one per sample
    reads,            \* the ReadMap of the last populate, in iteration order
    haplotypes,       \* the haplotypes of the last populate
    hashes_out_of_bounds, \* the last populate read a hash list past its end
    populated_before, \* the last populate was called on a populated cache
    pcCache,          \* "constructed", "populated", "crashed"
    \* ---- ThresholdFilterFactory
    hard_clauses,     \* the clauses the hard expression was written from
    soft_clauses,     \* the clauses the soft expression was written from
    hard_expression,  \* constructor argument, a string
    soft_expression,  \* constructor argument, a string
    hard_conditions_, \* member: the parsed hard conditions
    soft_conditions_, \* member: the parsed soft conditions
    ctor_error,       \* what the constructor threw, "none" if nothing
    made_filter,      \* what do_make handed to ThresholdVariantCallFilter
    pcFilter,         \* "start", "constructed", "failed"
    \* ---- TumourModel
    samples_,         \* member: the sample names
    priors_,          \* member: the alphas of each sample and the genotype prior model
    parameters_,      \* member: AlgorithmParameters (max_seeds)
    given_genotypes,  \* the cancer genotypes given to evaluate
    haplotype_likelihoods, \* per sample, the likelihood of its read under each haplotype
    seeds,            \* what generate_seeds returned
    vb_components,    \* K of the run_variational_bayes<K> dispatched to, 0 if none
    vb_slots,         \* per genotype, the slots of its VBGenotype<K> that flatten wrote
    outcome,          \* what evaluate returned or threw
    pcTumour,         \* "start", "constructed", "seeded", "evaluated", "failed", "crashed"
    \* ---- Phaser
    haplotype_region, \* force_phase: the region of the first haplotype
    partitions,       \* force_phase: the covered regions of the candidates
    genotype_ploidy,  \* the ploidy of the genotypes given to force_phase
    genotype_posteriors, \* the samples of the posterior map, in its iteration order
    sample_cursor,    \* the sample force_phase is at
    first_partition,  \* force_phase_sample: iterator into partitions (1-based)
    last_partition,   \* force_phase_sample: iterator into partitions, one past the run
    phase_score_log,  \* per sample, the runs whose phase score was computed, and the outcome
    sample_result,    \* force_phase_sample: its local result
    phase_regions,    \* result.phase_regions: per sample, its phase regions
    pcPhaser,         \* "idle", "sample", "loop", "done"
    \* ---- FixedPloidyGenotypeLikelihoodModel
    ploidy_,          \* member
    haplotype_likelihoods_, \* member: per haplotype, the likelihood of each read
    evaluated_genotype, \* the genotype given to log_likelihood
    log_likelihood_result, \* what log_likelihood returned
    pcModel,          \* "start", "constructed", "evaluated"
    \* ---- generate_all_haplotypes
    haplotype_set,    \* the haplotypes whose variants are given
    variant_range,    \* [first, last): the variants, position sorted
    generated,        \* what generate_all_haplotypes returned
    pcGenerate,       \* "start", "returned"
    \* ---- ReadManager::fetch_reads, as read_transform_test uses it
    read_file,        \* the reads of the file the ReadManager was opened on
    fetched_reads,    \* the test's reads vector
    fetched_sample,   \* the sample of the last fetch_reads
    fetched_region,   \* the region of the last fetch_reads
    pcReads,          \* "start", "constructed", "fetched", "transformed",
                      \* "refetched", "done"
    \* ---- generate_phase_complement_sets
    complement_genotypes, \* the genotypes given
    complement_range, \* [first, last): the partitions given
    complement_sets,  \* the PhaseComplementSets returned
    pcComplement,     \* "start", "returned"
    \* ---- CoalescentModel
    reference_,       \* member: the reference haplotype
    reference_base_indel_heterozygosities_, \* member: per base of the reference
    params_,          \* member: snp_heterozygosity, indel_heterozygosity
    haplotypes_,      \* member: the primed haplotypes
    caching_,         \* member: the CachingStrategy
    index_cache_,     \* member: per primed haplotype, its differences if computed
    difference_value_cache_,   \* member: haplotype -> differences
    difference_address_cache_, \* member: address of haplotype -> differences
    k_indel_zero_result_cache_, \* member: table [n][k_snp] of optional results
    k_indel_pos_result_cache_, \* member: (k_snp, k_indel, n, max_offset) -> result
    site_buffer1_,    \* member: the segregating sites of the last evaluation
    site_counts,      \* the SiteCountTuple of the last evaluation
    coalescent_result, \* what the last evaluate returned
    num_evaluations,  \* how many evaluations were made
    reference_was_set, \* set_reference has been called
    haplotype_indices, \* the indices the last evaluate was called with
    pcCoalescent      \* "start", "constructed", "primed", "evaluated",
                      \* "reference_set", "failed"

treeVars == <<tree, elements, element_type, max_haplotypes, it, ret, applied,
              start_haplotypes, pcTree>>

cacheVars == <<cache_, sample_indices_, read_iterators_, reads, haplotypes,
               hashes_out_of_bounds, populated_before, pcCache>>

filterVars == <<hard_clauses, soft_clauses, hard_expression, soft_expression,
                hard_conditions_, soft_conditions_, ctor_error, made_filter, pcFilter>>

tumourVars == <<samples_, priors_, parameters_, given_genotypes, haplotype_likelihoods,
                seeds,
                vb_components, vb_slots, outcome, pcTumour>>

phaserVars == <<haplotype_region, partitions, genotype_ploidy, genotype_posteriors,
                sample_cursor, first_partition, last_partition, phase_score_log,
                sample_result, phase_regions, pcPhaser>>

\* The variables of the components that follow the tumour model.
modelVars == <<ploidy_, haplotype_likelihoods_, evaluated_genotype,
               log_likelihood_result, pcModel>>

generateVars == <<haplotype_set, variant_range, generated, pcGenerate>>

readsVars == <<read_file, fetched_reads, fetched_sample, fetched_region, pcReads>>

complementVars == <<complement_genotypes, complement_range, complement_sets,
                    pcComplement>>

\* The variables of the components that follow fetch_reads.
coalescentVars == <<reference_, reference_base_indel_heterozygosities_, params_,
                    haplotypes_, caching_, index_cache_, difference_value_cache_,
                    difference_address_cache_, k_indel_zero_result_cache_,
                    k_indel_pos_result_cache_, site_buffer1_, site_counts,
                    coalescent_result, num_evaluations, reference_was_set,
                    haplotype_indices, pcCoalescent>>

lastVars == <<complementVars, coalescentVars>>

laterVars == <<phaserVars, modelVars, generateVars, readsVars, lastVars>>

vars == <<treeVars, cacheVars, filterVars, tumourVars, laterVars>>

----------------------------------------------------------------------------
(* Bounds of the model                                                     *)

MaxLocus == 2
MaxElements == 2
MaxHaplotypeBound == 4
MaxReads == 2
MaxHaplotypes == 2
MaxClauses == 2
MaxPloidy == 9
MaxSeeds == 11
MaxGenotypes == 7
MaxEvaluatedGenotypes == 2
MaxWindow == 4
MaxCandidates == 3
MaxEvaluations == 2

----------------------------------------------------------------------------
(* Generic helpers                                                         *)

SeqsUpTo(S, n) == UNION {[1..k -> S] : k \in 0..n}

Max(a, b) == IF a >= b THEN a ELSE b

Min(a, b) == IF a <= b THEN a ELSE b

----------------------------------------------------------------------------
(* Alleles, variants and the haplotype tree                                *)

\* An allele is a locus and the bases it carries there.
Bases == {"ref", "alt"}

Alleles == [locus : 1..MaxLocus, bases : Bases]

\* A variant is a reference allele and an alternative allele of one locus.
Variants == {v \in [ref : Alleles, alt : Alleles] :
                 /\ v.ref.locus = v.alt.locus
                 /\ v.ref.bases = "ref"
                 /\ v.alt.bases # "ref"}

locus_of(e) == IF "ref" \in DOMAIN e THEN e.ref.locus ELSE e.locus

\* The ranges handed to the tree are position sorted.
IsSortedRange(s) == \A i \in 1..(Len(s) - 1) : locus_of(s[i]) <= locus_of(s[i + 1])

AlleleRanges == {s \in SeqsUpTo(Alleles, MaxElements) : IsSortedRange(s)}

VariantRanges == {s \in SeqsUpTo(Variants, MaxElements) : IsSortedRange(s)}

\* The empty tree holds the root alone: one leaf with the empty path.
EmptyTree == {<<>>}

is_empty(t) == t = EmptyTree

num_haplotypes(t) == IF is_empty(t) THEN 0 ELSE Cardinality(t)

\* The part of a path that ends before the allele begins.
branch_before(path, allele) == SelectSeq(path, LAMBDA a : a.locus < allele.locus)

\* What one leaf becomes when the allele is offered to it.
extend_haplotype(path, allele) ==
    IF path = <<>> \/ path[Len(path)].locus < allele.locus
    THEN {Append(path, allele)}
    ELSE IF path[Len(path)].locus = allele.locus
         THEN {path, Append(branch_before(path, allele), allele)}
         ELSE {path}

\* HaplotypeTree::extend: every leaf is offered the allele.
extend(t, allele) == UNION {extend_haplotype(path, allele) : path \in t}

extend_element_alt_only(t, type, e) ==
    IF type = "Variant" THEN extend(t, e.alt) ELSE extend(t, e)

\* The body of the find_if predicate: what the element does to the tree.
extend_element(t, type, e) ==
    IF type = "Variant"
    THEN extend(extend(t, e.ref), e.alt)
    ELSE extend(t, e)

\* detail::extend_tree: std::for_each over the range.
RECURSIVE extend_tree(_, _, _)
extend_tree(t, type, range) ==
    IF range = <<>>
    THEN t
    ELSE extend_tree(extend_element(t, type, Head(range)), type, Tail(range))

\* The find_if predicate's answer after the element was extended.
limit_reached(t, max) == num_haplotypes(t) >= max

\* The iterator extend_tree_until returns once find_if stopped at position i.
until_result(t, max, i) == IF num_haplotypes(t) = max THEN i + 1 ELSE i

\* The trees a call can meet: built by extend_tree from a sorted range.
StartTrees == {extend_tree(EmptyTree, "Variant", r) : r \in VariantRanges}
                  \cup {extend_tree(EmptyTree, "Allele", r) : r \in AlleleRanges}

TreeInit ==
    /\ tree \in StartTrees
    /\ elements = <<>>
    /\ element_type = "Allele"
    /\ max_haplotypes = 0
    /\ it = 1
    /\ ret = 1
    /\ applied = {}
    /\ start_haplotypes = 0
    /\ pcTree = "idle"

\* extend_tree_until(first, last, tree, max_haplotypes) is called.
CallExtendTreeUntil(type, range, max) ==
    /\ pcTree = "idle"
    /\ elements' = range
    /\ element_type' = type
    /\ max_haplotypes' = max
    /\ start_haplotypes' = num_haplotypes(tree)
    /\ applied' = {}
    /\ it' = 1
    /\ IF range = <<>>
       THEN /\ ret' = 1          \* first == last: return last
            /\ pcTree' = "returned"
       ELSE /\ ret' = ret
            /\ pcTree' = "find"
    /\ UNCHANGED tree

\* One evaluation of the find_if predicate on *it.
FindIfStep ==
    /\ pcTree = "find"
    /\ it <= Len(elements)
    /\ tree' = extend_element(tree, element_type, elements[it])
    /\ applied' = applied \cup {it}
    /\ IF limit_reached(tree', max_haplotypes)
       THEN /\ it' = it
            /\ pcTree' = "found"
       ELSE /\ it' = it + 1
            /\ pcTree' = IF it + 1 > Len(elements) THEN "found" ELSE "find"
    /\ UNCHANGED <<elements, element_type, max_haplotypes, ret, start_haplotypes>>

\* The return statement after find_if.
ReturnFromUntil ==
    /\ pcTree = "found"
    /\ ret' = until_result(tree, max_haplotypes, it)
    /\ pcTree' = "returned"
    /\ UNCHANGED <<tree, elements, element_type, max_haplotypes, it, applied,
                   start_haplotypes>>

\* The calls tried, on ranges of alleles and on ranges of variants.
CallOnAlleles ==
    /\ pcTree = "idle"
    /\ \E range \in AlleleRanges, max \in 1..MaxHaplotypeBound :
           CallExtendTreeUntil("Allele", range, max)

CallOnVariants ==
    /\ pcTree = "idle"
    /\ \E range \in VariantRanges, max \in 1..MaxHaplotypeBound :
           CallExtendTreeUntil("Variant", range, max)

NextTree ==
    \/ CallOnAlleles /\ UNCHANGED <<cacheVars, filterVars, tumourVars, laterVars>>
    \/ CallOnVariants /\ UNCHANGED <<cacheVars, filterVars, tumourVars, laterVars>>
    \/ FindIfStep /\ UNCHANGED <<cacheVars, filterVars, tumourVars, laterVars>>
    \/ ReturnFromUntil /\ UNCHANGED <<cacheVars, filterVars, tumourVars, laterVars>>

----------------------------------------------------------------------------
(* HaplotypeLikelihoodCache                                                *)

SampleNames == {"normal", "tumour"}

\* The reads of a sample: its i-th read is the object <<sample, i>>.
reads_of(sample, n) == [i \in 1..n |-> <<sample, i>>]

AllReads == {<<s, i>> : s \in SampleNames, i \in 1..MaxReads}

HaplotypeNames == {"hap_ref", "hap_alt"}

Range(f) == {f[x] : x \in DOMAIN f}

EmptyMap == <<>>

\* A ReadMap in its iteration order: distinct samples, each with its reads.
ReadMaps ==
    {m \in SeqsUpTo({[sample |-> s, reads |-> reads_of(s, n)] :
                         s \in SampleNames, n \in 0..MaxReads},
                    Cardinality(SampleNames)) :
        \A i, j \in 1..Len(m) : m[i].sample = m[j].sample => i = j}

HaplotypeLists == SeqsUpTo(HaplotypeNames, MaxHaplotypes)

\* compute_kmer_hashes<KMER_SIZE>(read.get_sequence())
compute_kmer_hashes(read) == [kmers_of |-> read]

\* What a read past the end of a hash list yields when the build goes on.
GarbageHashes == [kmers_of |-> <<"garbage", 0>>]

\* likelihood_model.log_probability(read, first_mapping_position,
\* last_mapping_position), the mapping positions coming from
\* map_query_to_target(read_hashes, haplotype_hashes, ...)
log_probability(read, read_hashes, haplotype) ==
    [read |-> read, mapped |-> read_hashes, haplotype |-> haplotype]

\* set_read_iterators_and_sample_indices: the entries emplaced at the back of
\* read_iterators_
new_read_iterators(read_map) ==
    [k \in 1..Len(read_map) |->
        [reads |-> read_map[k].reads, num_reads |-> Len(read_map[k].reads)]]

\* A slip in the sample counter: every sample is given index 0.
new_sample_indices_stuck(read_map) ==
    [s \in {read_map[k].sample : k \in 1..Len(read_map)} |-> 0]

\* set_read_iterators_and_sample_indices: sample_indices_.emplace(p.first, i++)
new_sample_indices(read_map) ==
    [s \in {read_map[k].sample : k \in 1..Len(read_map)} |->
        (CHOOSE k \in 1..Len(read_map) : read_map[k].sample = s) - 1]

\* The hash lists computed before the haplotype loop, one per read_iterators_ entry.
compute_read_hashes(iterators) ==
    [k \in 1..Len(iterators) |->
        [i \in 1..iterators[k].num_reads |-> compute_kmer_hashes(iterators[k].reads[i])]]

\* The hash list std::transform reads for the k-th sample: read_hash_itr is
\* const and stays at cbegin(read_hashes).
hashes_read_for(read_hashes, k) == read_hashes[1]

\* The i-th element std::transform takes from that list.
hash_at(read_hashes, k, i) ==
    IF i <= Len(hashes_read_for(read_hashes, k))
    THEN hashes_read_for(read_hashes, k)[i]
    ELSE GarbageHashes

\* The size of the vector assigned to *it for the k-th read_iterators_ entry.
likelihood_vector_size(iterators, k) == iterators[k].num_reads

\* The vector stored for one haplotype and one read_iterators_ entry.
sample_likelihoods(iterators, read_hashes, k, haplotype) ==
    [i \in 1..likelihood_vector_size(iterators, k) |->
        log_probability(iterators[k].reads[i], hash_at(read_hashes, k, i),
                        haplotype)]

\* Whether the transform of some sample runs past the list it reads.
reads_past_end(iterators, read_hashes) ==
    \E k \in 1..Len(iterators) :
        iterators[k].num_reads > Len(hashes_read_for(read_hashes, k))

\* cache_ after the haplotype loop: one vector per sample for each haplotype.
populated_cache(iterators, haps, num_samples) ==
    [h \in Range(haps) |->
        [k \in 1..num_samples |->
            IF k <= Len(iterators)
            THEN sample_likelihoods(iterators, compute_read_hashes(iterators), k, h)
            ELSE <<>>]]

clear_not(container) == container

\* clear() of a container: cache_.clear(), sample_indices_.clear(),
\* read_iterators_.clear()
clear(container) == <<>>

CacheInit ==
    /\ cache_ = EmptyMap
    /\ sample_indices_ = EmptyMap
    /\ read_iterators_ = <<>>
    /\ reads = <<>>
    /\ haplotypes = <<>>
    /\ hashes_out_of_bounds = FALSE
    /\ populated_before = FALSE
    /\ pcCache = "constructed"

\* HaplotypeLikelihoodCache::populate(reads, haplotypes, flank_state). Where a
\* hash list is read past its end the build may crash in the haplotype loop
\* or go on with what it read there.
Populate(read_map, haps, crash) ==
    /\ pcCache \in {"constructed", "populated"}
    /\ haps # <<>>
    /\ reads' = read_map
    /\ haplotypes' = haps
    /\ populated_before' = (pcCache = "populated")
    /\ sample_indices_' = new_sample_indices(read_map) @@ clear(sample_indices_)
    /\ LET iterators == read_iterators_ \o new_read_iterators(read_map)
           past_end == reads_past_end(iterators, compute_read_hashes(iterators))
       IN /\ crash => past_end
          /\ hashes_out_of_bounds' = past_end
          /\ IF crash
             THEN /\ cache_' = EmptyMap
                  /\ read_iterators_' = iterators
                  /\ pcCache' = "crashed"
             ELSE /\ cache_' = populated_cache(iterators, haps, Len(read_map))
                                  @@ clear(cache_)
                  /\ read_iterators_' = clear(iterators)
                  /\ pcCache' = "populated"

\* populate with no haplotype: *std::max_element(cbegin, cend) dereferences the
\* end iterator. The build may crash there, or read some size and go on with
\* a haplotype loop that has nothing to do.
PopulateNoHaplotypes(read_map, crash) ==
    /\ pcCache \in {"constructed", "populated"}
    /\ reads' = read_map
    /\ haplotypes' = <<>>
    /\ populated_before' = (pcCache = "populated")
    /\ cache_' = clear(cache_)
    /\ sample_indices_' = new_sample_indices(read_map) @@ clear(sample_indices_)
    /\ hashes_out_of_bounds' = FALSE
    /\ IF crash
       THEN /\ read_iterators_' = read_iterators_ \o new_read_iterators(read_map)
            /\ pcCache' = "crashed"
       ELSE /\ read_iterators_' = clear(read_iterators_ \o new_read_iterators(read_map))
            /\ pcCache' = "populated"

\* HaplotypeLikelihoodCache::log_likelihoods(sample, haplotype):
\* cache_.at(haplotype)[sample_indices_.at(sample)]
log_likelihoods(cache, indices, sample, haplotype) ==
    IF haplotype \notin DOMAIN cache \/ sample \notin DOMAIN indices
    THEN [outcome |-> "throws std::out_of_range"]
    ELSE [outcome |-> "returns", value |-> cache[haplotype][indices[sample] + 1]]

PopulateAny ==
    /\ pcCache \in {"constructed", "populated"}
    /\ \E read_map \in ReadMaps, haps \in HaplotypeLists, crash \in BOOLEAN :
           Populate(read_map, haps, crash)

PopulateNoHaplotypesAny ==
    /\ pcCache \in {"constructed", "populated"}
    /\ \E read_map \in ReadMaps, crash \in BOOLEAN :
           PopulateNoHaplotypes(read_map, crash)

NextCache ==
    \/ PopulateAny /\ UNCHANGED <<treeVars, filterVars, tumourVars, laterVars>>
    \/ PopulateNoHaplotypesAny /\ UNCHANGED <<treeVars, filterVars, tumourVars, laterVars>>

----------------------------------------------------------------------------
(* ThresholdFilterFactory: the threshold expression parser                 *)

\* A string is a sequence of characters.
Str2(a, b) == <<a, b>>

Digits == {"0", "1", "2", "3", "4", "5", "6", "7", "8", "9"}

\* name<Depth>(), name<StrandBias>()
DepthName == Str2("D", "P")

StrandBiasName == Str2("S", "B")

MeasureNames == {DepthName, StrandBiasName}

\* The comparators make_threshold knows.
KnownComparators == {Str2("=", "="), <<"<">>, Str2("<", "="), <<">">>, Str2(">", "=")}

\* What is written between a measure and a value in the expressions tried:
\* the known comparators, a known one with spaces around it, "=" and nothing.
WrittenComparators == KnownComparators \cup {<<" ", "<", " ">>, <<"=">>, <<>>}

WrittenValues == {<<"5">>, <<"x">>}

\* The clauses tried: every written comparator and value on the depth, and
\* two clauses on the strand bias.
Clauses == [measure : {DepthName}, op : WrittenComparators, value : WrittenValues]
               \cup {[measure |-> StrandBiasName, op |-> <<"<">>, value |-> Str2("2", "0")],
                     [measure |-> StrandBiasName, op |-> Str2(">", "="),
                      value |-> Str2("2", "0")]}

ClauseLists == SeqsUpTo(Clauses, MaxClauses)

write_clause(c) == c.measure \o c.op \o c.value

\* The clauses joined by "|".
RECURSIVE write_expression(_)
write_expression(clauses) ==
    IF clauses = <<>>
    THEN <<>>
    ELSE IF Len(clauses) = 1
         THEN write_clause(clauses[1])
         ELSE write_clause(clauses[1]) \o <<"|">> \o write_expression(Tail(clauses))

\* expression.erase(std::remove(begin, end, ' '), end)
remove_spaces(str) == SelectSeq(str, LAMBDA c : c # " ")

\* boost::split(result, str, boost::is_any_of(delimiters)): token compression
\* is off, so n delimiter characters give n + 1 tokens.
RECURSIVE split(_, _)
split(str, delimiters) ==
    IF \A i \in 1..Len(str) : str[i] \notin delimiters
    THEN <<str>>
    ELSE LET first == CHOOSE i \in 1..Len(str) :
                          /\ str[i] \in delimiters
                          /\ \A j \in 1..(i - 1) : str[j] \notin delimiters
         IN <<SubSeq(str, 1, first - 1)>>
                \o split(SubSeq(str, first + 1, Len(str)), delimiters)

\* boost::is_any_of("|")
ConditionDelimiters == {"|"}

\* boost::is_any_of("<,>,<=,=>,=="): the set of the characters of that string
ComparatorDelimiters == {"<", ",", ">", "="}

Thrown(what) == [ok |-> FALSE, error |-> what]

Value(v) == [ok |-> TRUE, value |-> v]

\* The decimal value of a string of digits.
RECURSIVE digits_value(_)
digits_value(str) ==
    IF str = <<>>
    THEN 0
    ELSE 10 * digits_value(SubSeq(str, 1, Len(str) - 1))
            + (CHOOSE d \in 0..9 : ToString(d) = str[Len(str)])

\* boost::lexical_cast<double>(threshold_target), on the strings tried here:
\* a non-empty string of digits is a number, anything else is a
\* bad_lexical_cast.
lexical_cast_double(str) ==
    IF str # <<>> /\ \A i \in 1..Len(str) : str[i] \in Digits
    THEN Value(digits_value(str))
    ELSE Thrown("boost::bad_lexical_cast")

\* make_threshold(comparator, target)
make_threshold(comparator, target) ==
    IF comparator = Str2("=", "=") THEN Value([type |-> "EqualThreshold", target |-> target])
    ELSE IF comparator = <<"<">> THEN Value([type |-> "LessThreshold", target |-> target])
    ELSE IF comparator = Str2("<", "=")
         THEN Value([type |-> "LessEqualThreshold", target |-> target])
    ELSE IF comparator = <<">">> THEN Value([type |-> "GreaterThreshold", target |-> target])
    ELSE IF comparator = Str2(">", "=")
         THEN Value([type |-> "GreaterEqualThreshold", target |-> target])
    ELSE Thrown("BadVariantFilterCondition")

\* get_vcf_filter_name(measure, comparator, threshold_target), for the
\* measures tried here
get_vcf_filter_name(measure_name, comparator, target) ==
    IF measure_name = DepthName THEN "lowDepth" ELSE "strandBias"

\* make_measure(measure_name), and the StrandBias measure rebuilt with the target
make_measure(measure_name, target) ==
    IF measure_name = StrandBiasName
    THEN [name |-> measure_name, argument |-> target]
    ELSE [name |-> measure_name]

\* make_condition<T>(measure_name, comparator, threshold_target)
make_typed_condition(measure_name, comparator, target) ==
    LET threshold == make_threshold(comparator, target)
    IN IF ~threshold.ok
       THEN threshold
       ELSE Value([measure |-> make_measure(measure_name, target),
                   threshold |-> threshold.value,
                   vcf_filter_key |-> get_vcf_filter_name(measure_name, comparator, target)])

\* A slip: the bad_lexical_cast is not caught and leaves the constructor.
make_condition_uncaught(measure_name, comparator, target_string) ==
    LET target == lexical_cast_double(target_string)
    IN IF ~target.ok
       THEN target
       ELSE make_typed_condition(measure_name, comparator, target.value)

\* make_condition(measure, comparator, threshold_target) on strings
make_condition(measure_name, comparator, target_string) ==
    LET target == lexical_cast_double(target_string)
    IN IF ~target.ok
       THEN Thrown("BadVariantFilterCondition")
       ELSE make_typed_condition(measure_name, comparator, target.value)

\* The body of the loop of parse_conditions for one condition.
parse_condition(condition) ==
    LET tokens == split(condition, ComparatorDelimiters)
    IN IF Len(tokens) = 2
       THEN LET comparitor_pos == Len(tokens[1])
                comparitor_length == Len(condition) - comparitor_pos - Len(tokens[2])
            IN IF comparitor_length \notin {1, 2}
               THEN Thrown("assertion failure")
               ELSE make_condition(tokens[1],
                                   SubSeq(condition, comparitor_pos + 1,
                                          comparitor_pos + comparitor_length),
                                   tokens[2])
       ELSE Thrown("BadVariantFilterCondition")

\* The loop of parse_conditions: the first failure ends it.
RECURSIVE parse_each(_, _)
parse_each(conditions, result) ==
    IF conditions = <<>>
    THEN Value(result)
    ELSE LET parsed == parse_condition(Head(conditions))
         IN IF parsed.ok
            THEN parse_each(Tail(conditions), Append(result, parsed.value))
            ELSE parsed

\* parse_conditions(expression)
parse_conditions(expression) ==
    LET stripped == remove_spaces(expression)
    IN IF stripped = <<>>
       THEN Value(<<>>)
       ELSE parse_each(split(stripped, ConditionDelimiters), <<>>)

NoFilter == [made |-> FALSE]

FilterInit ==
    /\ hard_clauses = <<>>
    /\ soft_clauses = <<>>
    /\ hard_expression = <<>>
    /\ soft_expression = <<>>
    /\ hard_conditions_ = <<>>
    /\ soft_conditions_ = <<>>
    /\ ctor_error = "none"
    /\ made_filter = NoFilter
    /\ pcFilter = "start"

\* ThresholdFilterFactory::ThresholdFilterFactory(hard_expression, soft_expression);
\* the one argument constructor is the case of an empty hard expression.
Construct(hard, soft) ==
    /\ pcFilter = "start"
    /\ hard_clauses' = hard
    /\ soft_clauses' = soft
    /\ hard_expression' = write_expression(hard)
    /\ soft_expression' = write_expression(soft)
    /\ LET parsed_hard == parse_conditions(write_expression(hard))
           parsed_soft == parse_conditions(write_expression(soft))
       IN IF ~parsed_hard.ok
          THEN /\ ctor_error' = parsed_hard.error
               /\ pcFilter' = "failed"
               /\ UNCHANGED <<hard_conditions_, soft_conditions_>>
          ELSE IF ~parsed_soft.ok
          THEN /\ ctor_error' = parsed_soft.error
               /\ pcFilter' = "failed"
               /\ UNCHANGED <<hard_conditions_, soft_conditions_>>
          ELSE /\ hard_conditions_' = parsed_hard.value
               /\ soft_conditions_' = parsed_soft.value
               /\ pcFilter' = "constructed"
               /\ UNCHANGED ctor_error
    /\ UNCHANGED made_filter

\* The conditions do_make passes to the ThresholdVariantCallFilter it makes.
do_make(hard_conditions, soft_conditions) ==
    [made |-> TRUE, hard |-> hard_conditions, soft |-> soft_conditions, error |-> "none"]

\* ThresholdFilterFactory::do_make
DoMake ==
    /\ pcFilter = "constructed"
    /\ made_filter' = do_make(hard_conditions_, soft_conditions_)
    /\ UNCHANGED <<hard_clauses, soft_clauses, hard_expression, soft_expression,
                   hard_conditions_, soft_conditions_, ctor_error, pcFilter>>

\* The hard expressions tried: none, "DP>5" and "DP==5".
HardClauseLists ==
    {<<>>,
     <<[measure |-> DepthName, op |-> <<">">>, value |-> <<"5">>]>>,
     <<[measure |-> DepthName, op |-> Str2("=", "="), value |-> <<"5">>]>>}

ConstructAny ==
    /\ pcFilter = "start"
    /\ \E hard \in HardClauseLists, soft \in ClauseLists : Construct(hard, soft)

NextFilter ==
    \/ ConstructAny /\ UNCHANGED <<treeVars, cacheVars, tumourVars, laterVars>>
    \/ DoMake /\ UNCHANGED <<treeVars, cacheVars, tumourVars, laterVars>>

----------------------------------------------------------------------------
(* TumourModel: seeds and ploidy dispatch                                  *)

\* A haplotype is named by its rank in the order of Haplotype::operator<.
TumourHaplotypes == 1..3

\* A Genotype<Haplotype> is the sorted sequence of its haplotypes.
homozygous(h, ploidy) == [i \in 1..ploidy |-> h]

heterozygous(ploidy) == [i \in 1..ploidy |-> IF i = 1 THEN 1 ELSE 2]

\* The germline genotypes tried, in the order the genotype vectors list them.
GermlineList(ploidy) ==
    IF ploidy = 1
    THEN <<homozygous(1, 1), homozygous(2, 1)>>
    ELSE <<homozygous(1, ploidy), heterozygous(ploidy), homozygous(2, ploidy)>>

RECURSIVE Flatten(_)
Flatten(seqs) == IF seqs = <<>> THEN <<>> ELSE Head(seqs) \o Flatten(Tail(seqs))

\* Every sorted sequence of the given length over the haplotypes lowest..3,
\* in lexicographic order: the somatic genotypes tried.
RECURSIVE sorted_tuples(_, _)
sorted_tuples(length, lowest) ==
    IF length = 0
    THEN << <<>> >>
    ELSE Flatten([k \in 1..(4 - lowest) |->
                     LET h == lowest + k - 1
                         rest == sorted_tuples(length - 1, h)
                     IN [j \in 1..Len(rest) |-> <<h>> \o rest[j]]])

SomaticList(somatic_ploidy) == sorted_tuples(somatic_ploidy, 1)

\* CancerGenotype<Haplotype>
CancerGenotype(germline_genotype, somatic_genotype) ==
    [germline |-> germline_genotype, somatic |-> somatic_genotype]

\* CancerGenotype::ploidy(): ploidy = germline.ploidy
ploidy_of(genotype) == Len(genotype.germline)

\* CancerGenotype::somatic_ploidy()
somatic_ploidy_of(genotype) == Len(genotype.somatic)

\* demote(genotype): germline and somatic haplotypes as one flat genotype
demote(genotype) == genotype.germline \o genotype.somatic

\* A genotype vector that lists the cancer genotypes germline by germline.
grouped_genotypes(ploidy, somatic_ploidy) ==
    LET germlines == GermlineList(ploidy)
        somatics == SomaticList(somatic_ploidy)
    IN [k \in 1..(Len(germlines) * Len(somatics)) |->
           CancerGenotype(germlines[((k - 1) \div Len(somatics)) + 1],
                          somatics[((k - 1) % Len(somatics)) + 1])]

\* A genotype vector in which the genotypes of one germline are not adjacent.
interleaved_genotypes(ploidy, somatic_ploidy) ==
    LET germlines == GermlineList(ploidy)
        somatics == SomaticList(somatic_ploidy)
    IN [k \in 1..(Len(germlines) * Len(somatics)) |->
           CancerGenotype(germlines[((k - 1) % Len(germlines)) + 1],
                          somatics[((k - 1) \div Len(germlines)) + 1])]

\* The non-empty genotype vectors of at most max_size genotypes given to evaluate.
GenotypeVectors(ploidy, somatic_ploidy, max_size) ==
    LET grouped == grouped_genotypes(ploidy, somatic_ploidy)
        interleaved == interleaved_genotypes(ploidy, somatic_ploidy)
    IN {SubSeq(base, 1, n) : base \in {grouped, interleaved},
                             n \in 1..Min(max_size, Len(grouped))}

\* ---- LogProbabilityVector
\* A vector of log probabilities is kept as the probabilities themselves, as
\* fractions of one denominator: entry i is log(num[i] / den).

RECURSIVE GCD(_, _)
GCD(a, b) == IF b = 0 THEN a ELSE GCD(b, a % b)

RECURSIVE SumSeq(_)
SumSeq(s) == IF s = <<>> THEN 0 ELSE Head(s) + SumSeq(Tail(s))

RECURSIVE GCDSeq(_)
GCDSeq(s) == IF s = <<>> THEN 0 ELSE GCD(Head(s), GCDSeq(Tail(s)))

\* The same vector in lowest terms, so that equal vectors are equal records.
lowest_terms(v) ==
    LET g == GCD(GCDSeq(v.num), v.den)
    IN [num |-> [i \in DOMAIN v.num |-> v.num[i] \div g], den |-> v.den \div g]

\* maths::normalise_logs
normalise_logs(v) == lowest_terms([num |-> v.num, den |-> SumSeq(v.num)])

\* The exponentials of the entries sum to 1.
is_normalised(v) == SumSeq(v.num) = v.den

\* add_to(other, result): the sum of two log vectors
add_to(other, result) ==
    [num |-> [i \in DOMAIN result.num |-> other.num[i] * result.num[i]],
     den |-> other.den * result.den]

\* The default p = 0.9999 of make_point_seed and make_range_seed.
SeedMass == [num |-> 9999, den |-> 10000]

\* make_point_seed(num_genotypes, n), n counted from 1
make_point_seed(num_genotypes, n) ==
    IF num_genotypes > 1
    THEN lowest_terms(
             [num |-> [i \in 1..num_genotypes |->
                          IF i = n THEN SeedMass.num * (num_genotypes - 1)
                                   ELSE SeedMass.den - SeedMass.num],
              den |-> SeedMass.den * (num_genotypes - 1)])
    ELSE [num |-> [i \in 1..num_genotypes |-> 1], den |-> 1]

\* make_point_seeds(num_genotypes, ns, result): the seeds it appends
make_point_seeds(num_genotypes, ns) ==
    [k \in 1..Len(ns) |-> make_point_seed(num_genotypes, ns[k])]

\* make_range_seed(num_genotypes, begin, n), begin counted from 1: the n
\* entries from begin share p, the others share 1 - p; with n = num_genotypes
\* every entry is log(p / n).
make_range_seed_at(num_genotypes, begin, n) ==
    IF n = num_genotypes
    THEN lowest_terms([num |-> [i \in 1..num_genotypes |-> SeedMass.num],
                       den |-> SeedMass.den * n])
    ELSE lowest_terms(
             [num |-> [i \in 1..num_genotypes |->
                          IF i >= begin /\ i < begin + n
                          THEN SeedMass.num * (num_genotypes - n)
                          ELSE (SeedMass.den - SeedMass.num) * n],
              den |-> SeedMass.den * n * (num_genotypes - n)])

\* make_range_seed(genotypes, germline): the run of genotypes with that
\* germline that starts at the first of them
make_range_seed(genotypes, germline) ==
    LET matches(i) == genotypes[i].germline = germline
        itr1 == CHOOSE i \in 1..Len(genotypes) :
                    matches(i) /\ \A j \in 1..(i - 1) : ~matches(j)
        after == {i \in (itr1 + 1)..Len(genotypes) : ~matches(i)}
        itr2 == IF after = {} THEN Len(genotypes) + 1
                ELSE CHOOSE i \in after : \A j \in after : i <= j
    IN make_range_seed_at(Len(genotypes), itr1, itr2 - itr1)

\* generate_exhaustive_seeds(n)
generate_exhaustive_seeds(n) == [i \in 1..n |-> make_point_seed(n, i)]

\* num_weighted_seeds(samples, genotypes)
num_weighted_seeds(samples, genotypes) ==
    1 + 4 * Len(samples) + 2 * (IF Len(samples) > 1 THEN 1 ELSE 0)

\* ---- priors and likelihoods

\* priors.genotype_prior_model.evaluate(genotype), as a weight: the uniform
\* model, and a model that favours the copies of the reference haplotype 1.
GenotypePriorModels == {"uniform", "reference"}

evaluate_prior(model, genotype) ==
    IF model = "uniform"
    THEN 1
    ELSE 1 + Cardinality({i \in 1..Len(demote(genotype)) : demote(genotype)[i] = 1})

\* calculate_log_priors(genotypes, priors.genotype_prior_model): the weights
\* are not normalised (they sum to 1/2).
calculate_log_priors(genotypes, model) ==
    LET weights == [k \in 1..Len(genotypes) |-> evaluate_prior(model, genotypes[k])]
    IN [num |-> weights, den |-> 2 * SumSeq(weights)]

\* The likelihood of the one read of a sample under each haplotype: a read
\* that fits the haplotypes 1, 2, 3 in that order, and a read that fits
\* haplotype 3 alone.
LikelihoodRows == {<<4, 2, 1>>, <<1, 1, 2>>}

\* The Dirichlet concentrations of a sample: one value for each germline
\* haplotype and one for each somatic haplotype.
AlphaRows == {[germline |-> 10, somatic |-> 10], [germline |-> 100, somatic |-> 1]}

\* priors.alphas.at(sample) for genotypes of the given shape
alphas_at(row, ploidy, somatic_ploidy) ==
    [i \in 1..(ploidy + somatic_ploidy) |->
        IF i <= ploidy THEN row.germline ELSE row.somatic]

\* A slip: the expectation of the first component is taken.
is_somatic_expected_first(alphas) == 100 * alphas[1] > 5 * SumSeq(alphas)

\* is_somatic_expected(sample, priors): dirichlet_expectation of the last
\* component > 0.05
is_somatic_expected(alphas) == 100 * alphas[Len(alphas)] > 5 * SumSeq(alphas)

\* GermlineLikelihoodModel::evaluate(genotype) for the read of a sample:
\* the sum over the haplotypes h of the genotype of P(read | h), over the ploidy
evaluate_likelihood(genotype, row) ==
    SumSeq([i \in 1..Len(genotype) |-> row[genotype[i]]])

\* compute_germline_log_likelihoods(sample, genotypes, haplotype_log_likelihoods)
compute_germline_log_likelihoods(row, genotypes) ==
    [num |-> [k \in 1..Len(genotypes) |-> evaluate_likelihood(genotypes[k].germline, row)],
     den |-> ploidy_of(genotypes[1])]

\* compute_demoted_log_likelihoods(sample, genotypes, haplotype_log_likelihoods)
compute_demoted_log_likelihoods(row, genotypes) ==
    [num |-> [k \in 1..Len(genotypes) |-> evaluate_likelihood(demote(genotypes[k]), row)],
     den |-> ploidy_of(genotypes[1]) + somatic_ploidy_of(genotypes[1])]

\* compute_log_posteriors(log_priors, likelihoods)
compute_log_posteriors(log_priors, likelihoods) ==
    normalise_logs(add_to(log_priors, likelihoods))

\* LogProbabilityVector(n, 0)
zeros(n) == [num |-> [i \in 1..n |-> 1], den |-> 1]

\* The loop of generate_weighted_seeds over the samples from the k-th on:
\* the four seeds of each sample, and the combined log likelihoods.
RECURSIVE weighted_sample_seeds(_, _, _, _, _, _)
weighted_sample_seeds(k, rows, alpha_rows, genotypes, genotype_log_priors, combined) ==
    IF k > Len(rows)
    THEN [seeds |-> <<>>, combined |-> combined]
    ELSE LET germline_log_likelihoods == compute_germline_log_likelihoods(rows[k], genotypes)
             demoted_log_likelihoods == compute_demoted_log_likelihoods(rows[k], genotypes)
             alphas == alphas_at(alpha_rows[k], ploidy_of(genotypes[1]),
                                 somatic_ploidy_of(genotypes[1]))
             next_combined == IF is_somatic_expected(alphas)
                              THEN add_to(demoted_log_likelihoods, combined)
                              ELSE add_to(germline_log_likelihoods, combined)
             rest == weighted_sample_seeds(k + 1, rows, alpha_rows, genotypes,
                                           genotype_log_priors, next_combined)
         IN [seeds |-> <<compute_log_posteriors(genotype_log_priors, germline_log_likelihoods),
                         normalise_logs(germline_log_likelihoods),
                         compute_log_posteriors(genotype_log_priors, demoted_log_likelihoods),
                         normalise_logs(demoted_log_likelihoods)>> \o rest.seeds,
             combined |-> rest.combined]

\* generate_weighted_seeds(samples, genotypes, genotype_log_priors,
\*                         haplotype_log_likelihoods, priors)
generate_weighted_seeds(rows, alpha_rows, genotypes, genotype_log_priors) ==
    LET per_sample == weighted_sample_seeds(1, rows, alpha_rows, genotypes,
                                            genotype_log_priors, zeros(Len(genotypes)))
    IN <<normalise_logs(genotype_log_priors)>>
           \o per_sample.seeds
           \o (IF Len(rows) > 1
               THEN <<normalise_logs(add_to(genotype_log_priors, per_sample.combined)),
                      normalise_logs(per_sample.combined)>>
               ELSE <<>>)

\* std::sort(dummy_log_likelihoods, std::greater<> {}): the genotype indices
\* by decreasing likelihood, and by decreasing index among equal likelihoods
RECURSIVE sort_greater(_, _)
sort_greater(indices, likelihoods) ==
    IF indices = {}
    THEN <<>>
    ELSE LET greatest == CHOOSE i \in indices :
                             \A j \in indices :
                                 \/ likelihoods[j] < likelihoods[i]
                                 \/ (likelihoods[j] = likelihoods[i] /\ j <= i)
         IN <<greatest>> \o sort_greater(indices \ {greatest}, likelihoods)

\* std::sort of a block by decreasing prior: every order the sort may leave,
\* as it need not keep the order of genotypes of equal prior
RECURSIVE sorted_by_prior(_, _)
sorted_by_prior(indices, prior) ==
    IF indices = {}
    THEN {<<>>}
    ELSE UNION {{<<first>> \o rest : rest \in sorted_by_prior(indices \ {first}, prior)} :
                   first \in {i \in indices : \A j \in indices : prior[j] <= prior[i]}}

\* dummy_log_likelihoods once the block of the greatest likelihood is sorted
\* by prior: every order it may have
dummy_log_likelihoods(genotypes, approx_log_likelihoods, model) ==
    LET sorted == sort_greater(1..Len(genotypes), approx_log_likelihoods.num)
        block == {i \in 1..Len(genotypes) :
                     approx_log_likelihoods.num[i] = approx_log_likelihoods.num[sorted[1]]}
        prior == [i \in 1..Len(genotypes) |-> evaluate_prior(model, genotypes[i])]
        rest == SubSeq(sorted, Cardinality(block) + 1, Len(sorted))
    IN {in_block \o rest : in_block \in sorted_by_prior(block, prior)}

\* std::set_difference on two sorted ranges of haplotypes
RECURSIVE set_difference(_, _)
set_difference(a, b) ==
    IF a = <<>> THEN <<>>
    ELSE IF b = <<>> THEN a
    ELSE IF Head(a) < Head(b) THEN <<Head(a)>> \o set_difference(Tail(a), b)
    ELSE IF Head(b) < Head(a) THEN set_difference(a, Tail(b))
    ELSE set_difference(Tail(a), Tail(b))

\* The first loop over dummy_log_likelihoods in generate_targetted_seeds: the
\* genotypes that empty the dominant haplotypes become point seeds.
RECURSIVE dominant_point_seeds(_, _, _, _, _, _, _)
dominant_point_seeds(genotypes, dummy, front, k, dominant_haplotypes, point_seeds, n) ==
    IF k > Len(dummy) \/ genotypes[dummy[k]].germline # front
    THEN [point_seeds |-> point_seeds, n |-> n]
    ELSE LET somatics == genotypes[dummy[k]].somatic
         IN IF dominant_haplotypes = <<>>
            THEN dominant_point_seeds(genotypes, dummy, front, k + 1, somatics,
                                      point_seeds, n)
            ELSE LET difference == set_difference(dominant_haplotypes, somatics)
                 IN IF difference # <<>>
                    THEN dominant_point_seeds(genotypes, dummy, front, k + 1,
                                              difference, point_seeds, n)
                    ELSE IF n = 1
                    THEN [point_seeds |-> Append(point_seeds, dummy[k]), n |-> 0]
                    ELSE dominant_point_seeds(genotypes, dummy, front, k + 1,
                                              difference,
                                              Append(point_seeds, dummy[k]), n - 1)

\* The second loop: the genotypes of the selected germline that are not
\* point seeds yet, while the budget lasts.
RECURSIVE remaining_point_seeds(_, _, _, _, _, _)
remaining_point_seeds(genotypes, dummy, front, k, point_seeds, n) ==
    IF k > Len(dummy) \/ n = 0
    THEN point_seeds
    ELSE IF /\ genotypes[dummy[k]].germline = front
            /\ \A j \in 1..Len(point_seeds) : point_seeds[j] # dummy[k]
         THEN remaining_point_seeds(genotypes, dummy, front, k + 1,
                                    Append(point_seeds, dummy[k]), n - 1)
         ELSE remaining_point_seeds(genotypes, dummy, front, k + 1, point_seeds, n)

\* generate_targetted_seeds(genotypes, approx_log_likelihoods,
\*                          haplotype_log_likelihoods, priors, n, result):
\* the seeds it appends to result, given the order sorting left in dummy
generate_targetted_seeds(genotypes, approx_log_likelihoods, n, dummy) ==
    IF n = 0
    THEN <<>>
    ELSE LET num_genotypes == Len(genotypes)
             all_points == IF n >= num_genotypes
                           THEN [i \in 1..num_genotypes |-> make_point_seed(num_genotypes, i)]
                           ELSE <<>>
             block_size == Cardinality({i \in 1..num_genotypes :
                               approx_log_likelihoods.num[i]
                                   = approx_log_likelihoods.num[dummy[1]]})
             selected_germline_genotypes ==
                 [k \in 1..block_size |-> genotypes[dummy[k]].germline]
             num_ranges == Min(n, block_size)
             ranges == [k \in 1..num_ranges |->
                           make_range_seed(genotypes, selected_germline_genotypes[k])]
             left == n - num_ranges
             points ==
                 IF left > 0 /\ somatic_ploidy_of(genotypes[1]) > 1
                 THEN LET first_loop == dominant_point_seeds(
                                            genotypes, dummy,
                                            selected_germline_genotypes[1], 1,
                                            <<>>, <<>>, left)
                      IN make_point_seeds(
                             num_genotypes,
                             remaining_point_seeds(genotypes, dummy,
                                                   selected_germline_genotypes[1], 1,
                                                   first_loop.point_seeds, first_loop.n))
                 ELSE <<>>
         IN all_points \o ranges \o points

\* A slip: the number of weighted seeds is left out of the condition.
use_exhaustive_seeds_unbounded(samples, genotypes, max_seeds) ==
    Len(genotypes) <= max_seeds

\* The condition of generate_seeds for the exhaustive point seeds.
use_exhaustive_seeds(samples, genotypes, max_seeds) ==
    Len(genotypes) <= Min(max_seeds, num_weighted_seeds(samples, genotypes))

\* generate_seeds(samples, genotypes, genotype_log_priors,
\*                haplotype_log_likelihoods, priors, max_seeds): every seed
\* list it may return (one list, unless the sort of equal priors matters)
generate_seeds(samples, genotypes, rows, priors, max_seeds) ==
    IF use_exhaustive_seeds(samples, genotypes, max_seeds)
    THEN {generate_exhaustive_seeds(Len(genotypes))}
    ELSE LET genotype_log_priors ==
                 calculate_log_priors(genotypes, priors.genotype_prior_model)
             result == generate_weighted_seeds(rows, priors.alphas, genotypes,
                                               genotype_log_priors)
         IN IF Len(result) < max_seeds
            THEN {result \o generate_targetted_seeds(genotypes, result[Len(result)],
                                                     max_seeds - Len(result), dummy) :
                     dummy \in dummy_log_likelihoods(genotypes, result[Len(result)],
                                                     priors.genotype_prior_model)}
            ELSE {result}

\* ---- TumourModel::evaluate

SampleLists == {<<"tumour">>, <<"normal", "tumour">>}

SomaticPloidies == 1..2

\* The ploidies of the genotypes given to generate_seeds on its own.
SeedPloidies == 1..2

TumourInit ==
    /\ samples_ = <<>>
    /\ priors_ = [alphas |-> <<>>, genotype_prior_model |-> "uniform"]
    /\ parameters_ = [max_seeds |-> 0]
    /\ given_genotypes = <<>>
    /\ haplotype_likelihoods = <<>>
    /\ seeds = <<>>
    /\ vb_components = 0
    /\ vb_slots = <<>>
    /\ outcome = "none"
    /\ pcTumour = "start"

\* TumourModel::TumourModel(samples, priors, parameters)
ConstructTumourModel(samples, priors, parameters) ==
    /\ pcTumour = "start"
    /\ samples_' = samples
    /\ priors_' = priors
    /\ parameters_' = parameters
    /\ pcTumour' = "constructed"
    /\ UNCHANGED <<given_genotypes, haplotype_likelihoods, seeds, vb_components, vb_slots,
                   outcome>>

\* The switch of run_variational_bayes_helper on genotypes.front().ploidy()
dispatch_ploidy(ploidy) ==
    IF ploidy \in 2..8
    THEN Value(ploidy)
    ELSE Thrown("UnimplementedFeatureError: tumour model ploidies above 8")

\* flatten<K>(genotype, sample, haplotype_likelihoods): the number of slots
\* of the VBGenotype<K> that the two copy_cref calls write, from slot 0 on
flatten_genotype(genotype) == Len(genotype.germline) + Len(genotype.somatic)

\* flatten<K>(genotypes, sample, haplotype_likelihoods)
flatten_genotypes(genos) == [k \in 1..Len(genos) |-> flatten_genotype(genos[k])]

\* A copy_cref wrote past the last slot of a VBGenotype<K>.
writes_past_end(K, slots) == \E k \in 1..Len(slots) : slots[k] > K

\* generate_seeds alone, on the genotypes and likelihoods given
GenerateSeeds(genos, rows) ==
    /\ pcTumour = "constructed"
    /\ given_genotypes' = genos
    /\ haplotype_likelihoods' = rows
    /\ seeds' \in generate_seeds(samples_, genos, rows, priors_, parameters_.max_seeds)
    /\ pcTumour' = "seeded"
    /\ UNCHANGED <<samples_, priors_, parameters_, vb_components, vb_slots, outcome>>

\* TumourModel::evaluate(genotypes, haplotype_likelihoods): generate_seeds,
\* then run_variational_bayes_helper. Writing past the end of a VBGenotype
\* is undefined: the call may crash or carry on.
Evaluate(genos, rows, crash) ==
    /\ pcTumour = "constructed"
    /\ given_genotypes' = genos
    /\ haplotype_likelihoods' = rows
    /\ seeds' \in generate_seeds(samples_, genos, rows, priors_, parameters_.max_seeds)
    /\ LET dispatched == dispatch_ploidy(ploidy_of(genos[1]))
       IN IF ~dispatched.ok
          THEN /\ outcome' = dispatched.error
               /\ pcTumour' = "failed"
               /\ UNCHANGED <<vb_components, vb_slots>>
          ELSE /\ vb_components' = dispatched.value
               /\ vb_slots' = flatten_genotypes(genos)
               /\ crash => writes_past_end(dispatched.value, flatten_genotypes(genos))
               /\ outcome' = IF crash THEN "crashed" ELSE "inferred latents"
               /\ pcTumour' = IF crash THEN "crashed" ELSE "evaluated"
    /\ UNCHANGED <<samples_, priors_, parameters_>>

ConstructTumourModelAny ==
    /\ pcTumour = "start"
    /\ \E samples \in SampleLists, model \in GenotypePriorModels, max_seeds \in 0..MaxSeeds :
           \E alphas \in [1..Len(samples) -> AlphaRows] :
               ConstructTumourModel(samples,
                                    [alphas |-> alphas, genotype_prior_model |-> model],
                                    [max_seeds |-> max_seeds])

GenerateSeedsAny ==
    /\ pcTumour = "constructed"
    /\ \E ploidy \in SeedPloidies, somatic_ploidy \in SomaticPloidies :
           \E genos \in GenotypeVectors(ploidy, somatic_ploidy, MaxGenotypes),
              rows \in [1..Len(samples_) -> LikelihoodRows] :
               GenerateSeeds(genos, rows)

EvaluateAny ==
    /\ pcTumour = "constructed"
    /\ \E ploidy \in 1..MaxPloidy, somatic_ploidy \in SomaticPloidies, crash \in BOOLEAN :
           \E genos \in GenotypeVectors(ploidy, somatic_ploidy, MaxEvaluatedGenotypes),
              rows \in [1..Len(samples_) -> LikelihoodRows] :
               Evaluate(genos, rows, crash)

NextSeeds ==
    \/ ConstructTumourModelAny /\ UNCHANGED <<treeVars, cacheVars, filterVars, laterVars>>
    \/ GenerateSeedsAny /\ UNCHANGED <<treeVars, cacheVars, filterVars, laterVars>>

NextTumour ==
    \/ ConstructTumourModelAny /\ UNCHANGED <<treeVars, cacheVars, filterVars, laterVars>>
    \/ EvaluateAny /\ UNCHANGED <<treeVars, cacheVars, filterVars, laterVars>>

----------------------------------------------------------------------------
(* Phaser: force_phase and force_phase_sample                              *)

\* A GenomicRegion on one contig: the half-open interval [begin, end).
GenomicRegion(b, e) == [begin |-> b, end |-> e]

region_size(r) == r.end - r.begin

\* The haplotype window: the mapped region of the first haplotype.
HaplotypeRegion == GenomicRegion(0, MaxWindow)

\* The regions a candidate variant may have inside the window: one or two
\* reference positions.
CandidateRegions ==
    {r \in [begin : 0..MaxWindow, end : 0..MaxWindow] :
        r.begin < r.end /\ r.end - r.begin <= 2}

region_less(a, b) == a.begin < b.begin \/ (a.begin = b.begin /\ a.end < b.end)

\* The candidates given to force_phase: sorted, distinct, not empty.
CandidateLists ==
    {c \in SeqsUpTo(CandidateRegions, MaxCandidates) :
        /\ Len(c) >= 1
        /\ \A i \in 1..(Len(c) - 1) : region_less(c[i], c[i + 1])}

\* extract_covered_regions: the regions covered by the candidates, overlapping
\* candidates merged into one region; sorted and pairwise disjoint.
RECURSIVE covered_from(_, _, _)
covered_from(candidates, i, current) ==
    IF i > Len(candidates) THEN <<current>>
    ELSE IF candidates[i].begin < current.end
         THEN covered_from(candidates, i + 1,
                           GenomicRegion(current.begin, Max(current.end, candidates[i].end)))
         ELSE <<current>> \o covered_from(candidates, i + 1, candidates[i])

extract_covered_regions(candidates) ==
    IF Len(candidates) = 0 THEN <<>>
    ELSE covered_from(candidates, 2, candidates[1])

next_run_skipping(last) == last + 1

\* force_phase_sample, line 223: first_partition = last_partition
next_run(last) == last

shrink_not(last) == last

\* force_phase_sample, line 225: --last_partition
shrink(last) == last - 1

\* encompassing_region(first, last): the region from the leftmost begin to the
\* rightmost end of the partitions in [first, last).
encompassing_region(parts, first, last) ==
    GenomicRegion(parts[first].begin, parts[last - 1].end)

\* A Phred phase score against min_phase_score; "max" is Phred of probability 0.
maxPosterior == "max"

\* What calculate_phase_score may return: a score that is at least
\* min_phase_score, or one below it.
PhaseScores == {"above", "below"}

meets_min_phase_score(score) == score # "below"

PhaseRegion(r, score) == [region |-> r, score |-> score]

PhaserPloidies == 1..2

whole_region_phase_first_sample(samples, r) ==
    [s \in {samples[1]} |-> <<PhaseRegion(r, maxPosterior)>>]

\* force_phase, lines 245-250: every sample gets the whole haplotype region with
\* the maximal score.
whole_region_phase(samples, r) ==
    [s \in Range(samples) |-> <<PhaseRegion(r, maxPosterior)>>]

accepts_only_single(score, first, last) == last - first = 1

\* force_phase_sample, line 221: the run [first, last) is accepted.
accepts(score, first, last) ==
    meets_min_phase_score(score) \/ last - first = 1

PhaserInit ==
    /\ haplotype_region = HaplotypeRegion
    /\ partitions = <<>>
    /\ genotype_ploidy = 0
    /\ genotype_posteriors = <<>>
    /\ sample_cursor = 0
    /\ first_partition = 0
    /\ last_partition = 0
    /\ phase_score_log = <<>>
    /\ sample_result = <<>>
    /\ phase_regions = <<>>
    /\ pcPhaser = "idle"

\* Phaser::force_phase up to its loop over the samples.
ForcePhase(candidates, ploidy, samples) ==
    /\ pcPhaser = "idle"
    /\ haplotype_region' = HaplotypeRegion
    /\ partitions' = extract_covered_regions(candidates)
    /\ genotype_ploidy' = ploidy
    /\ genotype_posteriors' = samples
    /\ phase_score_log' = [s \in Range(samples) |-> {}]
    /\ IF ploidy = 1 \/ Len(partitions') = 1
       THEN /\ phase_regions' = whole_region_phase(samples, haplotype_region')
            /\ sample_cursor' = Len(samples) + 1
            /\ pcPhaser' = "done"
       ELSE /\ phase_regions' = <<>>
            /\ sample_cursor' = 1
            /\ pcPhaser' = "sample"
    /\ UNCHANGED <<first_partition, last_partition, sample_result>>

current_sample == genotype_posteriors[sample_cursor]

log_score(first, last, score) ==
    [phase_score_log EXCEPT ![current_sample] =
        @ \cup {[first |-> first, last |-> last, score |-> score]}]

\* result.phase_regions.emplace(p.first, ...) and the step of the loop over the
\* samples.
emplace_sample(regions) ==
    /\ phase_regions' = (current_sample :> regions) @@ phase_regions
    /\ sample_cursor' = sample_cursor + 1
    /\ pcPhaser' = IF sample_cursor = Len(genotype_posteriors) THEN "done" ELSE "sample"

\* force_phase_sample, lines 204-212: the score of the full partition list.
ForcePhaseSample(phase_score) ==
    /\ pcPhaser = "sample"
    /\ phase_score_log' = log_score(1, Len(partitions) + 1, phase_score)
    /\ IF meets_min_phase_score(phase_score)
       THEN /\ emplace_sample(<<PhaseRegion(haplotype_region, phase_score)>>)
            /\ UNCHANGED <<first_partition, last_partition, sample_result>>
       ELSE /\ sample_result' = <<>>
            /\ first_partition' = 1
            /\ last_partition' = Len(partitions)
            /\ pcPhaser' = "loop"
            /\ UNCHANGED <<phase_regions, sample_cursor>>
    /\ UNCHANGED <<haplotype_region, partitions, genotype_ploidy, genotype_posteriors>>

\* One iteration of the while loop of force_phase_sample, lines 216-227.
SplitStep(phase_score) ==
    /\ pcPhaser = "loop"
    /\ first_partition # Len(partitions) + 1
    /\ phase_score_log' = log_score(first_partition, last_partition, phase_score)
    /\ IF accepts(phase_score, first_partition, last_partition)
       THEN /\ sample_result' = Append(sample_result,
                    PhaseRegion(encompassing_region(partitions, first_partition,
                                                    last_partition), phase_score))
            /\ first_partition' = next_run(last_partition)
            /\ last_partition' = Len(partitions) + 1
       ELSE /\ last_partition' = shrink(last_partition)
            /\ UNCHANGED <<first_partition, sample_result>>
    /\ UNCHANGED <<haplotype_region, partitions, genotype_ploidy, genotype_posteriors,
                   sample_cursor, phase_regions, pcPhaser>>

\* The loop of force_phase_sample ends and its result is emplaced.
ReturnSample ==
    /\ pcPhaser = "loop"
    /\ first_partition = Len(partitions) + 1
    /\ emplace_sample(sample_result)
    /\ UNCHANGED <<haplotype_region, partitions, genotype_ploidy, genotype_posteriors,
                   first_partition, last_partition, phase_score_log, sample_result>>

ForcePhaseAny ==
    /\ pcPhaser = "idle"
    /\ \E candidates \in CandidateLists, ploidy \in PhaserPloidies,
          samples \in SampleLists :
           ForcePhase(candidates, ploidy, samples)

ForcePhaseSampleAny ==
    /\ pcPhaser = "sample"
    /\ \E phase_score \in PhaseScores : ForcePhaseSample(phase_score)

SplitStepAny ==
    /\ pcPhaser = "loop"
    /\ \E phase_score \in PhaseScores : SplitStep(phase_score)

NextPhaser ==
    \/ ForcePhaseAny /\ UNCHANGED <<treeVars, cacheVars, filterVars, tumourVars, lastVars, modelVars, generateVars, readsVars>>
    \/ ForcePhaseSampleAny /\ UNCHANGED <<treeVars, cacheVars, filterVars, tumourVars, lastVars, modelVars, generateVars, readsVars>>
    \/ SplitStepAny /\ UNCHANGED <<treeVars, cacheVars, filterVars, tumourVars, lastVars, modelVars, generateVars, readsVars>>
    \/ ReturnSample /\ UNCHANGED <<treeVars, cacheVars, filterVars, tumourVars, lastVars, modelVars, generateVars, readsVars>>

----------------------------------------------------------------------------
(* FixedPloidyGenotypeLikelihoodModel::log_likelihood                      *)

\* A log value is kept as the positive fraction it is the logarithm of, in
\* lowest terms: adding logs is multiplying, log_sum_exp is adding, and
\* doubling a log is squaring.
Fraction(n, d) == [n |-> n \div GCD(n, d), d |-> d \div GCD(n, d)]

log_of_one == Fraction(1, 1)

\* a + b on logs.
log_plus(a, b) == Fraction(a.n * b.n, a.d * b.d)

\* 2 * a on a log.
log_twice(a) == log_plus(a, a)

\* Maths::log_sum_exp(a, b): the log of the sum of the exponentials.
log_sum_exp(a, b) == Fraction(a.n * b.d + b.n * a.d, a.d * b.d)

log_sum_exp3(a, b, c) == log_sum_exp(log_sum_exp(a, b), c)

RECURSIVE log_sum_exp_all(_)
log_sum_exp_all(tmp) ==
    IF Len(tmp) = 1 THEN tmp[1]
    ELSE log_sum_exp(tmp[1], log_sum_exp_all(Tail(tmp)))

\* x - ln_ploidy_
minus_ln_ploidy(x, ploidy) == Fraction(x.n, x.d * ploidy)

\* std::accumulate(first, last, 0.0)
RECURSIVE accumulate(_)
accumulate(logs) ==
    IF logs = <<>> THEN log_of_one ELSE log_plus(logs[1], accumulate(Tail(logs)))

ModelHaplotypes == 1..3

ModelReads == 1..2

\* The likelihood of a read under a haplotype: 1/4, 1/2 or 3/4.
ReadLikelihoods == {Fraction(w, 4) : w \in 1..3}

HaplotypeLikelihoodTables == [ModelHaplotypes -> [ModelReads -> ReadLikelihoods]]

ModelPloidies == 1..4

\* The genotypes of a ploidy: its haplotypes in sorted order.
ModelGenotypes(ploidy) == Range(sorted_tuples(ploidy, 1))

\* Genotype::is_homozygous, Genotype::zygosity, Genotype::count
is_homozygous(g) == \A i \in DOMAIN g : g[i] = g[1]

zygosity(g) == Cardinality(Range(g))

count(g, h) == Cardinality({i \in DOMAIN g : g[i] = h})

\* HaplotypeLikelihoodCache::log_likelihoods(sample, haplotype)
read_log_likelihoods(table, h) == table[h]

log_likelihood_haploid(table, g) == accumulate(read_log_likelihoods(table, g[1]))

log_likelihood_diploid(table, g) ==
    IF is_homozygous(g)
    THEN accumulate(read_log_likelihoods(table, g[1]))
    ELSE LET log_likelihoods1 == read_log_likelihoods(table, g[1])
             log_likelihoods2 == read_log_likelihoods(table, g[2])
         IN accumulate([i \in DOMAIN log_likelihoods1 |->
                minus_ln_ploidy(log_sum_exp(log_likelihoods1[i], log_likelihoods2[i]), 2)])

\* The haplotype whose likelihoods the three-distinct path reads third.
third_of_triploid(g) == g[2]

log_likelihood_triploid(table, g) ==
    IF is_homozygous(g)
    THEN accumulate(read_log_likelihoods(table, g[1]))
    ELSE LET log_likelihoods1 == read_log_likelihoods(table, g[1])
             log_likelihoods2 == read_log_likelihoods(table, g[2])
         IN IF zygosity(g) = 3
            THEN LET log_likelihoods3 == read_log_likelihoods(table, third_of_triploid(g))
                 IN accumulate([i \in DOMAIN log_likelihoods1 |->
                        minus_ln_ploidy(log_sum_exp3(log_likelihoods1[i],
                                                     log_likelihoods2[i],
                                                     log_likelihoods3[i]), 3)])
            ELSE IF count(g, g[1]) = 1
            THEN accumulate([i \in DOMAIN log_likelihoods1 |->
                     minus_ln_ploidy(log_sum_exp(log_likelihoods1[i],
                                                 log_twice(log_likelihoods2[i])), 3)])
            ELSE accumulate([i \in DOMAIN log_likelihoods1 |->
                     minus_ln_ploidy(log_sum_exp(log_twice(log_likelihoods1[i]),
                                                 log_likelihoods2[i]), 3)])

log_likelihood_polyploid(table, g, ploidy) ==
    IF is_homozygous(g)
    THEN accumulate(read_log_likelihoods(table, g[1]))
    ELSE LET member_log_likelihoods ==
                 [k \in DOMAIN g |-> read_log_likelihoods(table, g[k])]
         IN accumulate([i \in DOMAIN member_log_likelihoods[1] |->
                LET tmp == [k \in 1..ploidy |-> member_log_likelihoods[k][i]]
                IN minus_ln_ploidy(log_sum_exp_all(tmp), ploidy)])

log_likelihood(table, g, ploidy) ==
    CASE ploidy = 1 -> log_likelihood_haploid(table, g)
      [] ploidy = 2 -> log_likelihood_diploid(table, g)
      [] ploidy = 3 -> log_likelihood_triploid(table, g)
      [] OTHER -> log_likelihood_polyploid(table, g, ploidy)

ModelInit ==
    /\ ploidy_ = 0
    /\ haplotype_likelihoods_ = <<>>
    /\ evaluated_genotype = <<>>
    /\ log_likelihood_result = log_of_one
    /\ pcModel = "start"

\* FixedPloidyGenotypeLikelihoodModel::FixedPloidyGenotypeLikelihoodModel
ConstructModel(ploidy, table) ==
    /\ pcModel = "start"
    /\ ploidy_' = ploidy
    /\ haplotype_likelihoods_' = table
    /\ pcModel' = "constructed"
    /\ UNCHANGED <<evaluated_genotype, log_likelihood_result>>

\* FixedPloidyGenotypeLikelihoodModel::log_likelihood
LogLikelihood(g) ==
    /\ pcModel = "constructed"
    /\ evaluated_genotype' = g
    /\ log_likelihood_result' = log_likelihood(haplotype_likelihoods_, g, ploidy_)
    /\ pcModel' = "evaluated"
    /\ UNCHANGED <<ploidy_, haplotype_likelihoods_>>

ConstructModelAny ==
    /\ pcModel = "start"
    /\ \E ploidy \in ModelPloidies, table \in HaplotypeLikelihoodTables :
           ConstructModel(ploidy, table)

LogLikelihoodAny ==
    /\ pcModel = "constructed"
    /\ \E g \in ModelGenotypes(ploidy_) : LogLikelihood(g)

NextModel ==
    \/ ConstructModelAny /\ UNCHANGED <<treeVars, cacheVars, filterVars, tumourVars, lastVars, phaserVars, generateVars, readsVars>>
    \/ LogLikelihoodAny /\ UNCHANGED <<treeVars, cacheVars, filterVars, tumourVars, lastVars, phaserVars, generateVars, readsVars>>

----------------------------------------------------------------------------
(* generate_all_haplotypes                                                 *)

\* The positions of the window the haplotypes are over.
WindowLoci == 1..3

\* A haplotype over the window: the bases it carries at each position.
WindowHaplotypes == [WindowLoci -> Bases]

HaplotypeSets == SUBSET WindowHaplotypes

variant_at(l) == [ref |-> [locus |-> l, bases |-> "ref"],
                  alt |-> [locus |-> l, bases |-> "alt"]]

\* The variants of a set of haplotypes, in sorted order.
RECURSIVE variants_from(_, _)
variants_from(H, l) ==
    IF l \notin WindowLoci THEN <<>>
    ELSE (IF \E h \in H : h[l] # "ref" THEN <<variant_at(l)>> ELSE <<>>)
             \o variants_from(H, l + 1)

variants(H) == variants_from(H, 1)

\* The haplotype of a root-to-leaf path: the alleles of the path, and the
\* reference wherever the path has no allele.
materialise(path) ==
    [l \in WindowLoci |->
        IF \E i \in DOMAIN path : path[i].locus = l
        THEN path[CHOOSE i \in DOMAIN path : path[i].locus = l].bases
        ELSE "ref"]

\* HaplotypeTree::extract_haplotypes: each frontier path, deduplicated.
extract_haplotypes(t) ==
    IF is_empty(t) THEN {} ELSE {materialise(path) : path \in t}

generate_all_haplotypes(range) ==
    IF range = <<>>
    THEN {}
    ELSE extract_haplotypes(extend_tree(EmptyTree, "Variant", range))

GenerateInit ==
    /\ haplotype_set = {}
    /\ variant_range = <<>>
    /\ generated = {}
    /\ pcGenerate = "start"

GenerateAllHaplotypes(H) ==
    /\ pcGenerate = "start"
    /\ haplotype_set' = H
    /\ variant_range' = variants(H)
    /\ generated' = generate_all_haplotypes(variant_range')
    /\ pcGenerate' = "returned"

GenerateAllHaplotypesAny ==
    /\ pcGenerate = "start"
    /\ \E H \in HaplotypeSets : GenerateAllHaplotypes(H)

NextGenerate ==
    GenerateAllHaplotypesAny
        /\ UNCHANGED <<treeVars, cacheVars, filterVars, tumourVars, lastVars, phaserVars, modelVars,
                     readsVars>>

----------------------------------------------------------------------------
(* ReadManager::fetch_reads in read_transform_test                         *)

Contigs == {"10", "3"}

\* An AlignedRead of the file: its sample, its mapped region, and whether a
\* read transform has been applied to it.
FileReads ==
    {r \in [sample : SampleNames, contig : Contigs, begin : 0..1, end : 1..2,
            transformed : {FALSE}] : r.begin < r.end}

\* The reads of a file, in file order.
ReadFiles ==
    {f \in SeqsUpTo(FileReads, 2) : \A i, j \in DOMAIN f : i # j => f[i] # f[j]}

\* The regions the test may ask for.
FetchRegions ==
    {r \in [contig : Contigs, begin : 0..2, end : 0..2] : r.begin < r.end}

overlaps(read, r) ==
    read.contig = r.contig /\ read.begin < r.end /\ r.begin < read.end

\* operator< of AlignedRead: by start, then by end.
read_less(a, b) == a.begin < b.begin \/ (a.begin = b.begin /\ a.end < b.end)

\* std::is_sorted(std::cbegin(reads), std::cend(reads))
is_sorted(rs) == \A i \in 1..(Len(rs) - 1) : ~read_less(rs[i + 1], rs[i])

\* The reads of a set in sorted order.
RECURSIVE sort_reads(_)
sort_reads(S) ==
    IF S = {} THEN <<>>
    ELSE LET least == CHOOSE r \in S : \A other \in S : ~read_less(other, r)
         IN <<least>> \o sort_reads(S \ {least})

fetch_reads_in_file_order(file, sample, r) ==
    SelectSeq(file, LAMBDA read : read.sample = sample /\ overlaps(read, r))

\* fetch_reads(sample, region): the reads of the sample that overlap the
\* region, sorted by start.
fetch_reads(file, sample, r) ==
    sort_reads({file[i] : i \in {j \in DOMAIN file :
                    file[j].sample = sample /\ overlaps(file[j], r)}})

\* transform_reads(reads, transformer): trimming changes qualities, not positions.
transform_reads(rs) == [i \in DOMAIN rs |-> [rs[i] EXCEPT !.transformed = TRUE]]

ReadsInit ==
    /\ read_file = <<>>
    /\ fetched_reads = <<>>
    /\ fetched_sample = "normal"
    /\ fetched_region = [contig |-> "10", begin |-> 0, end |-> 1]
    /\ pcReads = "start"

\* ReadManager read_manager {NA12878_low_coverage};
ConstructReadManager(file) ==
    /\ pcReads = "start"
    /\ read_file' = file
    /\ pcReads' = "constructed"
    /\ UNCHANGED <<fetched_reads, fetched_sample, fetched_region>>

\* reads = read_manager.fetch_reads(sample, region), first and second time.
FetchReads(sample, r) ==
    /\ pcReads \in {"constructed", "transformed"}
    /\ pcReads = "transformed" => (sample = fetched_sample /\ r # fetched_region)
    /\ fetched_reads' = fetch_reads(read_file, sample, r)
    /\ fetched_sample' = sample
    /\ fetched_region' = r
    /\ pcReads' = IF pcReads = "constructed" THEN "fetched" ELSE "refetched"
    /\ UNCHANGED read_file

\* transform_reads(reads, transformer);
TransformReads ==
    /\ pcReads \in {"fetched", "refetched"}
    /\ fetched_reads' = transform_reads(fetched_reads)
    /\ pcReads' = IF pcReads = "fetched" THEN "transformed" ELSE "done"
    /\ UNCHANGED <<read_file, fetched_sample, fetched_region>>

ConstructReadManagerAny ==
    /\ pcReads = "start"
    /\ \E file \in ReadFiles : ConstructReadManager(file)

FetchReadsAny ==
    /\ pcReads \in {"constructed", "transformed"}
    /\ \E sample \in SampleNames, r \in FetchRegions : FetchReads(sample, r)

NextReads ==
    \/ ConstructReadManagerAny
           /\ UNCHANGED <<treeVars, cacheVars, filterVars, tumourVars, lastVars, phaserVars,
                          modelVars, generateVars>>
    \/ FetchReadsAny
           /\ UNCHANGED <<treeVars, cacheVars, filterVars, tumourVars, lastVars, phaserVars,
                          modelVars, generateVars>>
    \/ TransformReads
           /\ UNCHANGED <<treeVars, cacheVars, filterVars, tumourVars, lastVars, phaserVars,
                          modelVars, generateVars>>

----------------------------------------------------------------------------
(* generate_phase_complement_sets                                          *)

\* The partitions a haplotype is spliced over, and the alleles it may carry at one.
ComplementPartitions == 1..2

PartitionAlleles == {"ref", "alt"}

\* A haplotype: the allele it carries in each partition region.
ComplementHaplotypes == [ComplementPartitions -> PartitionAlleles]

\* A bag of one element, and the sum of two bags.
single_bag(x) == [e \in {x} |-> 1]

bag_plus(a, b) ==
    [e \in (DOMAIN a) \cup (DOMAIN b) |->
        (IF e \in DOMAIN a THEN a[e] ELSE 0) + (IF e \in DOMAIN b THEN b[e] ELSE 0)]

\* A diploid Genotype<Haplotype>: an unordered pair of haplotypes.
ComplementGenotypes ==
    {bag_plus(single_bag(a), single_bag(b)) : a, b \in ComplementHaplotypes}

\* The genotypes given: distinct, at least one.
ComplementGenotypeLists ==
    {g \in SeqsUpTo(ComplementGenotypes, 3) :
        /\ Len(g) >= 1
        /\ \A i, j \in DOMAIN g : i # j => g[i] # g[j]}

\* The ranges [first, last) of partitions given.
ComplementRanges ==
    {r \in [first : 1..3, last : 1..3] : r.first <= r.last}

regions_of(r) == r.first..(r.last - 1)

\* The bag that maps every element of the bag through f.
RECURSIVE map_bag(_, _, _)
map_bag(bag, todo, region) ==
    IF todo = {} THEN <<>>
    ELSE LET h == CHOOSE x \in todo : TRUE
             rest == map_bag(bag, todo \ {h}, region)
             mapped == [e \in {h[region]} |-> bag[h]]
         IN bag_plus(mapped, rest)

\* splice<Haplotype>(genotype, region): the genotype of the haplotypes' splices.
splice(genotype, region) == map_bag(genotype, DOMAIN genotype, region)

\* are_equal_in_region<Haplotype>(lhs, rhs, region)
are_equal_in_region(lhs, rhs, region) == splice(lhs, region) = splice(rhs, region)

PhaseComplementHash_of_genotype(genotype, r) == genotype

\* PhaseComplementHash: the combined hashes of the splices, region by region.
PhaseComplementHash(genotype, r) ==
    [region \in regions_of(r) |-> splice(genotype, region)]

\* PhaseComplementEqual: std::all_of over the regions.
PhaseComplementEqual(lhs, rhs, r) ==
    \A region \in regions_of(r) : are_equal_in_region(lhs, rhs, region)

\* PhaseComplementSetMap::find: the entry with an equal hash and an equal key,
\* or 0 for end().
find(map, genotype, r) ==
    LET hits == {i \in DOMAIN map :
                    /\ PhaseComplementHash(map[i].key, r) = PhaseComplementHash(genotype, r)
                    /\ PhaseComplementEqual(map[i].key, genotype, r)}
    IN IF hits = {} THEN 0 ELSE CHOOSE i \in hits : TRUE

\* insert(genotype, curr_result)
insert(genotype, curr_result, r) ==
    LET itr == find(curr_result, genotype, r)
    IN IF itr = 0
       THEN Append(curr_result, [key |-> genotype, set |-> <<genotype>>])
       ELSE [curr_result EXCEPT ![itr].set = Append(@, genotype)]

RECURSIVE insert_each(_, _, _, _)
insert_each(genotypes, i, curr_result, r) ==
    IF i > Len(genotypes) THEN curr_result
    ELSE insert_each(genotypes, i + 1, insert(genotypes[i], curr_result, r), r)

\* The orders in which the unordered map may be iterated.
iteration_orders(map) ==
    {order \in [DOMAIN map -> DOMAIN map] : \A i, j \in DOMAIN map :
                                                i # j => order[i] # order[j]}

\* generate_phase_complement_sets: the sets it may return.
generate_phase_complement_sets(genotypes, r) ==
    LET first_set == <<[key |-> genotypes[1], set |-> <<genotypes[1]>>]>>
        complement_map == insert_each(genotypes, 2, first_set, r)
    IN {[i \in DOMAIN complement_map |-> complement_map[order[i]].set] :
            order \in iteration_orders(complement_map)}

ComplementInit ==
    /\ complement_genotypes = <<>>
    /\ complement_range = [first |-> 1, last |-> 1]
    /\ complement_sets = <<>>
    /\ pcComplement = "start"

GeneratePhaseComplementSets(genotypes, r) ==
    /\ pcComplement = "start"
    /\ complement_genotypes' = genotypes
    /\ complement_range' = r
    /\ complement_sets' \in generate_phase_complement_sets(genotypes, r)
    /\ pcComplement' = "returned"

GeneratePhaseComplementSetsAny ==
    /\ pcComplement = "start"
    /\ \E genotypes \in ComplementGenotypeLists, r \in ComplementRanges :
           GeneratePhaseComplementSets(genotypes, r)

NextComplement ==
    GeneratePhaseComplementSetsAny
        /\ UNCHANGED <<treeVars, cacheVars, filterVars, tumourVars, phaserVars, modelVars,
                       generateVars, readsVars, coalescentVars>>

----------------------------------------------------------------------------
(* CoalescentModel                                                         *)

\* A segregating site: a variant at an offset from the begin of the reference.
snp_at(offset) == [offset |-> offset, size |-> 1, indel |-> FALSE]

deletion_at(offset, size) == [offset |-> offset, size |-> size, indel |-> TRUE]

is_indel(site) == site.indel

\* A haplotype over the window of two bases: the variants it carries.
CoalescentHaplotypes ==
    {{}, {snp_at(0)}, {snp_at(0), snp_at(1)}, {deletion_at(0, 1)}, {deletion_at(0, 2)}}

\* The haplotypes given as a reference.
CoalescentReferences == {{}, {snp_at(0)}}

\* The copies of the tandem repeat each base of the plain window lies in.
WindowRepeatCopies == <<2, 3>>

\* The copies at a base of the reference: a variant of the reference ends the
\* repeat there.
repeat_copies(reference, base) ==
    IF \E site \in reference : site.offset <= base - 1 /\ base - 1 < site.offset + site.size
    THEN 1
    ELSE WindowRepeatCopies[base]

\* A heterozygosity is kept as the number n with value base * n^2.6: 0 is no
\* heterozygosity, 1 the base rate.
elevated(base_heterozygosity, copies) == base_heterozygosity * copies

\* calculate_base_indel_heterozygosities
calculate_base_indel_heterozygosities(reference, base_indel_heterozygosity) ==
    [base \in DOMAIN WindowRepeatCopies |->
        Max(base_indel_heterozygosity,
            elevated(base_indel_heterozygosity, repeat_copies(reference, base)))]

\* Haplotype::difference: the variants that turn the other haplotype into this.
difference(haplotype, other) == (haplotype \ other) \cup (other \ haplotype)

site_less(a, b) ==
    \/ a.offset < b.offset
    \/ a.offset = b.offset /\ a.size < b.size
    \/ a.offset = b.offset /\ a.size = b.size /\ ~a.indel /\ b.indel

\* The sites of a set in sorted order.
RECURSIVE sorted_sites(_)
sorted_sites(S) ==
    IF S = {} THEN <<>>
    ELSE LET least == CHOOSE x \in S : \A y \in S : ~site_less(y, x)
         IN <<least>> \o sorted_sites(S \ {least})

boost_none == [has |-> FALSE]

optional(v) == [has |-> TRUE, value |-> v]

CoalescentParameters ==
    [snp_heterozygosity : {1}, indel_heterozygosity : {0, 1}]

CachingStrategies == {"address", "value"}

\* coalescent(n, k_snp, k_indel, theta_snp, theta_indel): the value is kept as
\* its arguments.
coalescent(n, k_snp, k_indel, theta_snp, theta_indel) ==
    [n |-> n, k_snp |-> k_snp, k_indel |-> k_indel,
     theta_snp |-> theta_snp, theta_indel |-> theta_indel]

resize_losing(v, size, value) == [i \in 1..size |-> value]

\* std::vector::resize(size, value): the old elements stay.
resize(v, size, value) ==
    [i \in 1..size |-> IF i <= Len(v) THEN v[i] ELSE value]

\* CoalescentModel::evaluate(k_snp, n): the table after the call and the result.
\* Row n of the table is element n + 1, entry k_snp of a row is element k_snp + 1.
evaluate_k_indel_zero(table, params, k_snp, n) ==
    LET result == coalescent(n, k_snp, 0, params.snp_heterozygosity,
                             params.indel_heterozygosity)
    IN IF Len(table) > n /\ Len(table[n + 1]) > k_snp
       THEN IF table[n + 1][k_snp + 1].has
            THEN [table |-> table, result |-> table[n + 1][k_snp + 1].value]
            ELSE [table |-> [table EXCEPT ![n + 1][k_snp + 1] = optional(result)],
                  result |-> result]
       ELSE LET grown ==
                    IF Len(table) > n
                    THEN [table EXCEPT ![n + 1] = resize(@, k_snp + 1, boost_none)]
                    ELSE [resize(table, n + 1, <<>>) EXCEPT
                              ![n + 1] = [k \in 1..(k_snp + 1) |-> boost_none]]
            IN [table |-> [grown EXCEPT ![n + 1][k_snp + 1] = optional(result)],
                result |-> result]

\* std::max_element over the bases of the site.
max_over_site(heterozygosities, site) ==
    LET bases == {b \in DOMAIN heterozygosities :
                     site.offset + 1 <= b /\ b < site.offset + 1 + Max(1, site.size)}
    IN CHOOSE h \in {heterozygosities[b] : b \in bases} :
           \A b \in bases : heterozygosities[b] <= h

\* The loop of evaluate(k_snp, k_indel, n) over site_buffer1_, lines 236-249.
RECURSIVE elevate(_, _, _, _, _)
elevate(sites, i, heterozygosities, indel_heterozygosity, max_offset) ==
    IF i > Len(sites)
    THEN [indel_heterozygosity |-> indel_heterozygosity, max_offset |-> max_offset]
    ELSE IF is_indel(sites[i])
              /\ max_over_site(heterozygosities, sites[i]) > indel_heterozygosity
         THEN elevate(sites, i + 1, heterozygosities,
                      max_over_site(heterozygosities, sites[i]), sites[i].offset)
         ELSE elevate(sites, i + 1, heterozygosities, indel_heterozygosity, max_offset)

\* The key of k_indel_pos_result_cache_, line 250.
result_key(k_snp, k_indel, n, sites, elevation) ==
    <<k_snp, k_indel, n, elevation.max_offset>>

\* CoalescentModel::evaluate(k_snp, k_indel, n): the cache after the call and
\* the result.
evaluate_k_indel_pos(cache, params, heterozygosities, sites, k_snp, k_indel, n) ==
    LET elevation == elevate(sites, 1, heterozygosities, params.indel_heterozygosity, -1)
        t == result_key(k_snp, k_indel, n, sites, elevation)
        result == coalescent(n, k_snp, k_indel, params.snp_heterozygosity,
                             elevation.indel_heterozygosity)
    IN IF t \in DOMAIN cache
       THEN [cache |-> cache, result |-> cache[t]]
       ELSE [cache |-> (t :> result) @@ cache, result |-> result]

\* CoalescentModel::fill_site_buffer: the index cache after the call and the
\* variants gathered, haplotype by haplotype.
RECURSIVE fill_site_buffer(_, _, _, _, _, _)
fill_site_buffer(indices, i, flagged, index_cache, primed, reference) ==
    IF i > Len(indices)
    THEN [index_cache |-> index_cache, gathered |-> {}]
    ELSE IF indices[i] \in flagged
         THEN fill_site_buffer(indices, i + 1, flagged, index_cache, primed, reference)
         ELSE LET index == indices[i]
                  site_variants == IF index_cache[index].has
                              THEN index_cache[index].value
                              ELSE difference(primed[index], reference)
                  filled == [index_cache EXCEPT ![index] = optional(site_variants)]
                  rest == fill_site_buffer(indices, i + 1, flagged \cup {index},
                                           filled, primed, reference)
              IN [index_cache |-> rest.index_cache,
                  gathered |-> site_variants \cup rest.gathered]

\* count_segregating_sites: the tuple (k_snp, k_indel, n) of the sites gathered;
\* the reference counts as one more haplotype.
site_count_tuple(sites, indices) ==
    [k_snp |-> Cardinality({i \in DOMAIN sites : ~is_indel(sites[i])}),
     k_indel |-> Cardinality({i \in DOMAIN sites : is_indel(sites[i])}),
     n |-> Len(indices) + 1]

CoalescentInit ==
    /\ reference_ = {}
    /\ reference_base_indel_heterozygosities_ = <<>>
    /\ params_ = [snp_heterozygosity |-> 0, indel_heterozygosity |-> 0]
    /\ haplotypes_ = <<>>
    /\ caching_ = "value"
    /\ index_cache_ = <<>>
    /\ difference_value_cache_ = <<>>
    /\ difference_address_cache_ = <<>>
    /\ k_indel_zero_result_cache_ = <<>>
    /\ k_indel_pos_result_cache_ = <<>>
    /\ site_buffer1_ = <<>>
    /\ site_counts = [k_snp |-> 0, k_indel |-> 0, n |-> 0]
    /\ coalescent_result = boost_none
    /\ num_evaluations = 0
    /\ reference_was_set = FALSE
    /\ haplotype_indices = <<>>
    /\ pcCoalescent = "start"

\* The value cache holds the reference alone, with no differences.
value_cache_of_reference(reference, caching) ==
    IF caching = "value" THEN (reference :> {}) ELSE <<>>

\* CoalescentModel::CoalescentModel
ConstructCoalescentModel(reference, params, num_haplotyes_hint, caching) ==
    /\ pcCoalescent = "start"
    /\ IF params.snp_heterozygosity <= 0 \/ params.indel_heterozygosity <= 0
       THEN /\ pcCoalescent' = "failed"
            /\ UNCHANGED <<reference_, reference_base_indel_heterozygosities_, params_,
                           caching_, difference_value_cache_,
                           k_indel_zero_result_cache_>>
       ELSE /\ reference_' = reference
            /\ params_' = params
            /\ caching_' = caching
            /\ k_indel_zero_result_cache_' = [i \in 1..(2 * num_haplotyes_hint) |-> <<>>]
            /\ reference_base_indel_heterozygosities_' =
                   calculate_base_indel_heterozygosities(reference,
                                                         params.indel_heterozygosity)
            /\ difference_value_cache_' = value_cache_of_reference(reference, caching)
            /\ pcCoalescent' = "constructed"
    /\ UNCHANGED <<haplotypes_, index_cache_, difference_address_cache_,
                   k_indel_pos_result_cache_, site_buffer1_, site_counts,
                   coalescent_result, num_evaluations, reference_was_set,
                   haplotype_indices>>

\* CoalescentModel::set_reference
SetReference(reference) ==
    /\ pcCoalescent \in {"constructed", "primed", "evaluated"}
    /\ ~reference_was_set
    /\ reference_' = reference
    /\ reference_was_set' = TRUE
    /\ pcCoalescent' = "reference_set"
    /\ IF caching_ = "address"
       THEN /\ difference_address_cache_' = <<>>
            /\ UNCHANGED difference_value_cache_
       ELSE /\ difference_value_cache_' = value_cache_of_reference(reference, caching_)
            /\ UNCHANGED difference_address_cache_
    /\ UNCHANGED <<reference_base_indel_heterozygosities_, params_, haplotypes_,
                   caching_, index_cache_, k_indel_zero_result_cache_,
                   k_indel_pos_result_cache_, site_buffer1_, site_counts,
                   coalescent_result, num_evaluations, haplotype_indices>>

\* CoalescentModel::is_primed
is_primed == index_cache_ # <<>>

\* CoalescentModel::prime
Prime(primed) ==
    /\ pcCoalescent \in {"constructed", "reference_set"}
    /\ ~is_primed
    /\ haplotypes_' = primed
    /\ index_cache_' = [i \in DOMAIN primed |-> boost_none]
    /\ pcCoalescent' = "primed"
    /\ UNCHANGED <<reference_, reference_base_indel_heterozygosities_, params_, caching_,
                   difference_value_cache_, difference_address_cache_,
                   k_indel_zero_result_cache_, k_indel_pos_result_cache_, site_buffer1_,
                   site_counts, coalescent_result, num_evaluations, reference_was_set,
                   haplotype_indices>>

\* CoalescentModel::evaluate(haplotype_indices)
EvaluateIndices(indices) ==
    /\ pcCoalescent \in {"primed", "evaluated", "reference_set"}
    /\ is_primed
    /\ num_evaluations < MaxEvaluations
    /\ haplotype_indices' = indices
    /\ LET filled == fill_site_buffer(indices, 1, {}, index_cache_, haplotypes_,
                                      reference_)
           sites == sorted_sites(filled.gathered)
           t == site_count_tuple(sites, indices)
       IN /\ index_cache_' = filled.index_cache
          /\ site_buffer1_' = sites
          /\ site_counts' = t
          /\ IF t.k_indel = 0
             THEN LET zero == evaluate_k_indel_zero(k_indel_zero_result_cache_, params_,
                                                    t.k_snp, t.n)
                  IN /\ k_indel_zero_result_cache_' = zero.table
                     /\ coalescent_result' = optional(zero.result)
                     /\ UNCHANGED k_indel_pos_result_cache_
             ELSE LET pos == evaluate_k_indel_pos(k_indel_pos_result_cache_, params_,
                                 reference_base_indel_heterozygosities_, sites,
                                 t.k_snp, t.k_indel, t.n)
                  IN /\ k_indel_pos_result_cache_' = pos.cache
                     /\ coalescent_result' = optional(pos.result)
                     /\ UNCHANGED k_indel_zero_result_cache_
    /\ num_evaluations' = num_evaluations + 1
    /\ pcCoalescent' = "evaluated"
    /\ UNCHANGED <<reference_, reference_base_indel_heterozygosities_, params_,
                   haplotypes_, caching_, difference_value_cache_,
                   difference_address_cache_, reference_was_set>>

PrimedLists ==
    {h \in SeqsUpTo(CoalescentHaplotypes, 2) : Len(h) >= 1}

IndexLists(primed) ==
    {i \in SeqsUpTo(DOMAIN primed, 2) :
        /\ Len(i) >= 1
        /\ \A j \in 1..(Len(i) - 1) : i[j] < i[j + 1]}

ConstructCoalescentModelAny ==
    /\ pcCoalescent = "start"
    /\ \E reference \in CoalescentReferences, params \in CoalescentParameters,
          num_haplotyes_hint \in 0..1, caching \in CachingStrategies :
           ConstructCoalescentModel(reference, params, num_haplotyes_hint, caching)

SetReferenceAny ==
    /\ pcCoalescent \in {"constructed", "primed", "evaluated"}
    /\ ~reference_was_set
    /\ \E reference \in CoalescentReferences : SetReference(reference)

PrimeAny ==
    /\ pcCoalescent \in {"constructed", "reference_set"}
    /\ ~is_primed
    /\ \E primed \in PrimedLists : Prime(primed)

EvaluateIndicesAny ==
    /\ pcCoalescent \in {"primed", "evaluated", "reference_set"}
    /\ is_primed
    /\ \E indices \in IndexLists(haplotypes_) : EvaluateIndices(indices)

NextCoalescent ==
    \/ ConstructCoalescentModelAny
           /\ UNCHANGED <<treeVars, cacheVars, filterVars, tumourVars, phaserVars,
                          modelVars, generateVars, readsVars, complementVars>>
    \/ SetReferenceAny
           /\ UNCHANGED <<treeVars, cacheVars, filterVars, tumourVars, phaserVars,
                          modelVars, generateVars, readsVars, complementVars>>
    \/ PrimeAny
           /\ UNCHANGED <<treeVars, cacheVars, filterVars, tumourVars, phaserVars,
                          modelVars, generateVars, readsVars, complementVars>>
    \/ EvaluateIndicesAny
           /\ UNCHANGED <<treeVars, cacheVars, filterVars, tumourVars, phaserVars,
                          modelVars, generateVars, readsVars, complementVars>>

LastInit == ComplementInit /\ CoalescentInit

LaterInit == PhaserInit /\ ModelInit /\ GenerateInit /\ ReadsInit /\ LastInit

----------------------------------------------------------------------------
(* Specifications                                                          *)

TreeIdle ==
    /\ tree = EmptyTree
    /\ elements = <<>>
    /\ element_type = "Allele"
    /\ max_haplotypes = 0
    /\ it = 1
    /\ ret = 1
    /\ applied = {}
    /\ start_haplotypes = 0
    /\ pcTree = "idle"

InitTree == TreeInit /\ CacheInit /\ FilterInit /\ TumourInit /\ LaterInit

SpecTree == InitTree /\ [][NextTree]_vars

InitCache == TreeIdle /\ CacheInit /\ FilterInit /\ TumourInit /\ LaterInit

SpecCache == InitCache /\ [][NextCache]_vars

InitFilter == TreeIdle /\ CacheInit /\ FilterInit /\ TumourInit /\ LaterInit

SpecFilter == InitFilter /\ [][NextFilter]_vars

InitSeeds == TreeIdle /\ CacheInit /\ FilterInit /\ TumourInit /\ LaterInit

SpecSeeds == InitSeeds /\ [][NextSeeds]_vars

InitTumour == TreeIdle /\ CacheInit /\ FilterInit /\ TumourInit /\ LaterInit

SpecTumour == InitTumour /\ [][NextTumour]_vars

InitPhaser == TreeIdle /\ CacheInit /\ FilterInit /\ TumourInit /\ LaterInit

SpecPhaser == InitPhaser /\ [][NextPhaser]_vars

\* force_phase runs to its end: a step that can be taken is taken.
SpecPhaserFair == InitPhaser /\ [][NextPhaser]_vars /\ WF_vars(NextPhaser)

InitModel == TreeIdle /\ CacheInit /\ FilterInit /\ TumourInit /\ LaterInit

SpecModel == InitModel /\ [][NextModel]_vars

InitGenerate == TreeIdle /\ CacheInit /\ FilterInit /\ TumourInit /\ LaterInit

SpecGenerate == InitGenerate /\ [][NextGenerate]_vars

InitReads == TreeIdle /\ CacheInit /\ FilterInit /\ TumourInit /\ LaterInit

SpecReads == InitReads /\ [][NextReads]_vars

InitComplement == TreeIdle /\ CacheInit /\ FilterInit /\ TumourInit /\ LaterInit

SpecComplement == InitComplement /\ [][NextComplement]_vars

InitCoalescent == TreeIdle /\ CacheInit /\ FilterInit /\ TumourInit /\ LaterInit

SpecCoalescent == InitCoalescent /\ [][NextCoalescent]_vars

----------------------------------------------------------------------------
(* Claims about extend_tree_until                                          *)

\* C1: when extend_tree_until returns, the tree holds at most max_haplotypes
\* haplotypes (for a tree that held no more than that when the call was made):
\* an extension that would take it above the bound is not applied.
C1_StrictCeiling ==
    (pcTree = "returned" /\ start_haplotypes <= max_haplotypes)
        => num_haplotypes(tree) <= max_haplotypes

\* C2: the returned iterator is the first unconsumed element: every element
\* before it was extended into the tree, no element at or after it was, and it
\* is last only when every element was consumed.
C2_FirstUnconsumed ==
    pcTree = "returned"
        => /\ \A i \in 1..Len(elements) : (i < ret) <=> (i \in applied)
           /\ ret <= Len(elements) + 1
           /\ (ret = Len(elements) + 1) => (applied = 1..Len(elements))

----------------------------------------------------------------------------
(* Claims about HaplotypeLikelihoodCache                                   *)

SamplesOf(read_map) == {read_map[k].sample : k \in 1..Len(read_map)}

\* C3: after populate(reads, haplotypes), for every sample s of reads and every
\* haplotype h of haplotypes, log_likelihoods(s, h) exists and has one entry
\* per read of s.
C3_LikelihoodLengths ==
    pcCache = "populated"
        => \A k \in 1..Len(reads), h \in Range(haplotypes) :
               LET r == log_likelihoods(cache_, sample_indices_, reads[k].sample, h)
               IN /\ r.outcome = "returns"
                  /\ Len(r.value) = Len(reads[k].reads)

\* C3 witness: a populated cache of two samples with different numbers of
\* reads and two different haplotypes.
C3_Witness ==
    /\ pcCache = "populated"
    /\ Len(reads) = 2
    /\ Len(reads[1].reads) # Len(reads[2].reads)
    /\ Cardinality(Range(haplotypes)) = 2
    /\ \A k \in 1..2, h \in Range(haplotypes) :
           Len(log_likelihoods(cache_, sample_indices_, reads[k].sample, h).value)
               = Len(reads[k].reads)

\* C4: the value stored for read i of sample s and haplotype h comes from the
\* kmer hashes of that very read mapped against h, for every sample, and no
\* hash list is read outside its bounds.
C4_OwnReadHashes ==
    pcCache = "populated"
        => /\ ~hashes_out_of_bounds
           /\ \A k \in 1..Len(reads), h \in Range(haplotypes) :
                  LET r == log_likelihoods(cache_, sample_indices_, reads[k].sample, h)
                  IN /\ r.outcome = "returns"
                     /\ \A i \in 1..Len(reads[k].reads) :
                            r.value[i] = log_probability(reads[k].reads[i],
                                             compute_kmer_hashes(reads[k].reads[i]), h)

\* C5: on a populated cache log_likelihoods returns for every populated pair,
\* and a lookup of a haplotype that is not in the cache ends in an assertion
\* failure, not in an exception.
C5_AbsentHaplotypeAsserts ==
    pcCache = "populated"
        => \A s \in SampleNames, h \in HaplotypeNames :
               LET r == log_likelihoods(cache_, sample_indices_, s, h)
               IN /\ (s \in SamplesOf(reads) /\ h \in Range(haplotypes))
                         => r.outcome = "returns"
                  /\ h \notin Range(haplotypes) => r.outcome = "assertion failure"

\* The clauses of the hard and of the soft expression given to the constructor.
written_clauses == hard_clauses \o soft_clauses

is_numeric(str) == lexical_cast_double(str).ok

\* C6: parse_conditions accepts every '|'-separated list of clauses
\* "measure op value" with a known measure, a numeric value and op one of
\* ==, <, <=, >, >=, and yields one condition per clause, whose threshold
\* is the one of that op.
C6_AcceptsKnownComparators ==
    (/\ pcFilter # "start"
     /\ \A i \in 1..Len(written_clauses) :
            /\ written_clauses[i].measure \in MeasureNames
            /\ written_clauses[i].op \in KnownComparators
            /\ is_numeric(written_clauses[i].value))
        => /\ pcFilter = "constructed"
           /\ Len(hard_conditions_) = Len(hard_clauses)
           /\ Len(soft_conditions_) = Len(soft_clauses)
           /\ \A i \in 1..Len(hard_clauses) :
                  hard_conditions_[i].threshold
                      = make_threshold(hard_clauses[i].op,
                                       digits_value(hard_clauses[i].value)).value
           /\ \A i \in 1..Len(soft_clauses) :
                  soft_conditions_[i].threshold
                      = make_threshold(soft_clauses[i].op,
                                       digits_value(soft_clauses[i].value)).value

\* A clause that cannot be parsed: no known comparator between the measure
\* and the value, or a value that is not a number.
is_malformed(clause) ==
    \/ remove_spaces(clause.op) \notin KnownComparators
    \/ ~is_numeric(clause.value)

\* C7: every parse failure leaves the constructor as BadVariantFilterCondition
\* and no factory exists afterwards; an expression with a malformed clause
\* fails at construction; do_make on a constructed factory raises nothing and
\* hands the stored hard and soft conditions to the filter unchanged.
C7_ParseFailuresAtConstruction ==
    /\ pcFilter = "failed"
           => (ctor_error = "BadVariantFilterCondition" /\ ~made_filter.made)
    /\ (pcFilter # "start" /\ \E i \in 1..Len(written_clauses) :
                                  is_malformed(written_clauses[i]))
           => pcFilter = "failed"
    /\ made_filter.made
           => /\ pcFilter = "constructed"
              /\ made_filter.error = "none"
              /\ made_filter.hard = hard_conditions_
              /\ made_filter.soft = soft_conditions_

\* A constructor call that failed on a non-numeric value after a known
\* comparator, behind a clause that parsed.
C7_Witness ==
    /\ pcFilter = "failed"
    /\ hard_clauses = <<>>
    /\ Len(soft_clauses) = 2
    /\ ~is_malformed(soft_clauses[1])
    /\ soft_clauses[1].op = <<"<">>
    /\ soft_clauses[2].op = <<">">>
    /\ soft_clauses[2].value = <<"x">>

\* evaluate returned, threw or crashed.
evaluate_ended == pcTumour \in {"evaluated", "failed", "crashed"}

\* C8: evaluate raises the unsupported-ploidy error if and only if the
\* ploidy it dispatches on is greater than 8; for every ploidy 1..8 it runs
\* variational Bayes (a run_variational_bayes<K> is dispatched to).
C8_UnsupportedPloidyOnlyAbove8 ==
    evaluate_ended
        => LET ploidy == ploidy_of(given_genotypes[1])
           IN /\ (pcTumour = "failed") <=> (ploidy > 8)
              /\ (ploidy \in 1..8) => (vb_components # 0 /\ pcTumour # "failed")

base_seed_count == 1 + 4 * Len(samples_) + (IF Len(samples_) > 1 THEN 2 ELSE 0)

\* |G| <= min(max_seeds, base_seed_count)
few_genotypes ==
    /\ Len(given_genotypes) <= parameters_.max_seeds
    /\ Len(given_genotypes) <= base_seed_count

\* The seeds are the weighted seeds, followed by further seeds only if the
\* weighted seeds are fewer than max_seeds.
weighted_seeds_returned ==
    LET weighted == generate_weighted_seeds(
                        haplotype_likelihoods, priors_.alphas, given_genotypes,
                        calculate_log_priors(given_genotypes,
                                             priors_.genotype_prior_model))
    IN /\ Len(weighted) = base_seed_count
       /\ Len(seeds) >= Len(weighted)
       /\ SubSeq(seeds, 1, Len(weighted)) = weighted
       /\ (Len(seeds) > Len(weighted)) => (Len(weighted) < parameters_.max_seeds)

\* Seed i puts 0.9999 on genotype i and shares the rest equally over the others.
is_point_seed(seed, i) ==
    /\ Len(seed.num) = Len(given_genotypes)
    /\ seed.num[i] * 10000 = 9999 * seed.den
    /\ \A j \in 1..Len(seed.num) :
           j # i => seed.num[j] * 10000 * (Len(seed.num) - 1) = seed.den

\* C10 as stated: with |G| <= min(max_seeds, 1 + 4|S| + 2[|S| > 1]) the seeds
\* are exactly |G| point seeds, the i-th with mass 0.9999 on genotype i;
\* otherwise they are the weighted seeds, plus targeted seeds only if the
\* weighted seeds are fewer than max_seeds.
C10_ExhaustiveSeedsAsStated ==
    pcTumour = "seeded"
        => IF few_genotypes
           THEN /\ Len(seeds) = Len(given_genotypes)
                /\ \A i \in 1..Len(seeds) : is_point_seed(seeds[i], i)
           ELSE weighted_seeds_returned

\* C10, amended: as stated when |G| > 1; for a single genotype the one
\* exhaustive seed puts mass 1 on it.
C10_ExhaustiveSeeds ==
    pcTumour = "seeded"
        => IF few_genotypes
           THEN /\ Len(seeds) = Len(given_genotypes)
                /\ \A i \in 1..Len(seeds) :
                       IF Len(given_genotypes) > 1
                       THEN is_point_seed(seeds[i], i)
                       ELSE seeds[i] = [num |-> <<1>>, den |-> 1]
           ELSE weighted_seeds_returned

\* generate_seeds returned the exhaustive seeds of three genotypes for two
\* samples, with room for more seeds.
C10_Witness ==
    /\ pcTumour = "seeded"
    /\ few_genotypes
    /\ Len(given_genotypes) = 3
    /\ Len(samples_) = 2
    /\ parameters_.max_seeds > 3
    /\ Len(seeds) = 3
    /\ is_point_seed(seeds[2], 2)

\* C11: the seed list generate_seeds returns is deduplicated: no two seeds
\* of it are the same distribution over the genotypes.
C11_SeedsDeduplicated ==
    pcTumour = "seeded"
        => \A i, j \in 1..Len(seeds) : i # j => seeds[i] # seeds[j]

\* C12: every seed generate_seeds returns is a normalised log-distribution
\* over the genotypes: |G| entries whose exponentials sum to 1.
C12_SeedsNormalised ==
    pcTumour = "seeded"
        => \A i \in 1..Len(seeds) :
               /\ Len(seeds[i].num) = Len(given_genotypes)
               /\ is_normalised(seeds[i])

\* C13: with max_seeds = 1 one VB run is executed (VB is run once from each
\* seed): generate_seeds returns exactly one seed, for every sample list and
\* non-empty genotype vector.
C13_OneSeedOneRun ==
    (pcTumour = "seeded" /\ parameters_.max_seeds = 1) => Len(seeds) = 1

\* The seed is the distribution proportional to the weights.
is_distribution_of(seed, weights) ==
    /\ Len(seed.num) = Len(weights)
    /\ is_normalised(seed)
    /\ \A k \in 1..Len(weights) : seed.num[k] * SumSeq(weights) = weights[k] * seed.den

\* The prior of each genotype given to generate_seeds, as a weight.
prior_weights ==
    [k \in 1..Len(given_genotypes) |->
        evaluate_prior(priors_.genotype_prior_model, given_genotypes[k])]

\* The likelihood of the read of the s-th sample under the germline
\* component of each genotype, times the ploidy.
germline_weights(s) ==
    [k \in 1..Len(given_genotypes) |->
        SumSeq([i \in 1..Len(given_genotypes[k].germline) |->
                   haplotype_likelihoods[s][given_genotypes[k].germline[i]]])]

\* The same under the germline and somatic haplotypes taken together.
demoted_weights(s) ==
    [k \in 1..Len(given_genotypes) |->
        germline_weights(s)[k]
            + SumSeq([i \in 1..Len(given_genotypes[k].somatic) |->
                         haplotype_likelihoods[s][given_genotypes[k].somatic[i]]])]

times(v, w) == [k \in 1..Len(v) |-> v[k] * w[k]]

\* The prior expectation of the somatic component of the s-th sample is above 0.05.
somatic_expected(s) ==
    LET alphas == alphas_at(priors_.alphas[s], ploidy_of(given_genotypes[1]),
                            somatic_ploidy_of(given_genotypes[1]))
    IN 20 * alphas[Len(alphas)] > SumSeq(alphas)

\* The product over the samples from the s-th on of the likelihoods each
\* contributes to the combined seeds.
RECURSIVE combined_weights(_)
combined_weights(s) ==
    IF s > Len(samples_)
    THEN [k \in 1..Len(given_genotypes) |-> 1]
    ELSE times(IF somatic_expected(s) THEN demoted_weights(s) ELSE germline_weights(s),
               combined_weights(s + 1))

\* generate_seeds returned the weighted seeds, at least.
weighted_seeds_generated ==
    /\ pcTumour = "seeded"
    /\ ~few_genotypes

\* C14: generate_weighted_seeds returns 1 + 4|S| + 2[|S| > 1] seeds: the
\* normalised prior; for each sample the germline posterior, the germline
\* likelihoods, the demoted posterior and the demoted likelihoods; and with
\* more than one sample the combined posterior and the combined likelihoods,
\* to which a sample contributes its demoted likelihoods if its somatic
\* component is expected above 0.05 and its germline likelihoods if not.
C14_WeightedSeeds ==
    weighted_seeds_generated
        => /\ Len(seeds) >= base_seed_count
           /\ is_distribution_of(seeds[1], prior_weights)
           /\ \A s \in 1..Len(samples_) :
                  /\ is_distribution_of(seeds[4 * s - 2],
                                        times(prior_weights, germline_weights(s)))
                  /\ is_distribution_of(seeds[4 * s - 1], germline_weights(s))
                  /\ is_distribution_of(seeds[4 * s],
                                        times(prior_weights, demoted_weights(s)))
                  /\ is_distribution_of(seeds[4 * s + 1], demoted_weights(s))
           /\ Len(samples_) > 1
                  => /\ is_distribution_of(seeds[4 * Len(samples_) + 2],
                                           times(prior_weights, combined_weights(1)))
                     /\ is_distribution_of(seeds[4 * Len(samples_) + 3],
                                           combined_weights(1))
           /\ Len(seeds) > base_seed_count => base_seed_count < parameters_.max_seeds

\* Weighted seeds of two samples of which only the second expects somatic
\* haplotypes, and whose reads differ.
C14_Witness ==
    /\ weighted_seeds_generated
    /\ Len(samples_) = 2
    /\ ~somatic_expected(1)
    /\ somatic_expected(2)
    /\ haplotype_likelihoods[1] # haplotype_likelihoods[2]
    /\ priors_.genotype_prior_model = "reference"
    /\ Len(given_genotypes) = 3
    /\ Len(seeds) = 11

----------------------------------------------------------------------------
(* Claims about Phaser::force_phase                                        *)

RECURSIVE sum_of_sizes(_)
sum_of_sizes(regions) ==
    IF regions = <<>> THEN 0
    ELSE region_size(regions[1].region) + sum_of_sizes(Tail(regions))

force_phase_returned == pcPhaser = "done"

\* C15: for every sample, the phase regions force_phase returns are ordered and
\* pairwise non-overlapping, and their lengths sum to the length of the
\* haplotype window, whether the window was accepted whole or split.
C15_PhaseRegionsTileWindow ==
    force_phase_returned
        => \A s \in DOMAIN phase_regions :
               /\ \A i, j \in 1..Len(phase_regions[s]) :
                      i < j => phase_regions[s][i].region.end
                                   <= phase_regions[s][j].region.begin
               /\ sum_of_sizes(phase_regions[s]) = region_size(haplotype_region)

is_unsplittable == genotype_ploidy = 1 \/ Len(partitions) = 1

\* C16: when the genotypes are haploid or the candidates cover exactly one
\* partition, force_phase returns at once and gives every sample of the posterior
\* map exactly one phase region, the whole haplotype region with the maximal
\* phase score, and no phase score has been computed.
C16_UnsplittableWholeRegion ==
    (pcPhaser # "idle" /\ is_unsplittable)
        => /\ force_phase_returned
           /\ DOMAIN phase_regions = Range(genotype_posteriors)
           /\ \A s \in DOMAIN phase_regions :
                  /\ phase_regions[s] = <<PhaseRegion(haplotype_region, maxPosterior)>>
                  /\ phase_score_log[s] = {}

C16_Witness ==
    /\ force_phase_returned
    /\ genotype_ploidy = 2
    /\ Len(partitions) = 1
    /\ Len(genotype_posteriors) = 2
    /\ partitions[1] # haplotype_region

\* The run [first, last) of partitions was scored for the sample, with this score.
scored(s, first, last, score) ==
    [first |-> first, last |-> last, score |-> score] \in phase_score_log[s]

\* Every score computed for the run [first, last) is below min_phase_score, and
\* one was computed.
scored_below(s, first, last) ==
    /\ \E e \in phase_score_log[s] : e.first = first /\ e.last = last
    /\ \A e \in phase_score_log[s] :
           (e.first = first /\ e.last = last) => ~meets_min_phase_score(e.score)

\* The partition a returned region starts at, and the one past where it ends.
left_edge(r) ==
    CHOOSE i \in 1..Len(partitions) : partitions[i].begin = r.begin

right_edge(r) ==
    1 + (CHOOSE i \in 1..Len(partitions) : partitions[i].end = r.end)

is_greedy_split(s) ==
    LET regions == phase_regions[s]
        end == Len(partitions) + 1
    IN  /\ Len(regions) >= 1
        /\ \A k \in 1..Len(regions) :
               LET first == left_edge(regions[k].region)
                   last == right_edge(regions[k].region)
               IN  /\ \E i \in 1..Len(partitions) :
                          partitions[i].begin = regions[k].region.begin
                   /\ \E i \in 1..Len(partitions) :
                          partitions[i].end = regions[k].region.end
                   /\ first < last
                   /\ first = IF k = 1 THEN 1 ELSE right_edge(regions[k - 1].region)
                   /\ k = Len(regions) => last = end
                   /\ scored(s, first, last, regions[k].score)
                   /\ meets_min_phase_score(regions[k].score) \/ last = first + 1
                   /\ \A longer \in (last + 1)..end : scored_below(s, first, longer)

\* C17: force_phase_sample is the greedy split: a full partition list that scores
\* at least min_phase_score gives the single whole-window region; otherwise every
\* returned region starts at the partition where the previous one ended and is
\* the longest run from there that scores at least min_phase_score, or a single
\* partition, whatever its score, when no longer run does.
C17_GreedySplit ==
    (force_phase_returned /\ ~is_unsplittable)
        => \A s \in DOMAIN phase_regions :
               IF scored_below(s, 1, Len(partitions) + 1)
               THEN is_greedy_split(s)
               ELSE \E score \in PhaseScores :
                        /\ meets_min_phase_score(score)
                        /\ scored(s, 1, Len(partitions) + 1, score)
                        /\ phase_regions[s] = <<PhaseRegion(haplotype_region, score)>>

C17_Witness ==
    /\ force_phase_returned
    /\ Len(partitions) = 3
    /\ \E s \in DOMAIN phase_regions :
           /\ Len(phase_regions[s]) = 2
           /\ phase_regions[s][1].region
                  = encompassing_region(partitions, 1, 3)
           /\ phase_regions[s][1].score = "above"
           /\ phase_regions[s][2].score = "below"

----------------------------------------------------------------------------
(* Claims about FixedPloidyGenotypeLikelihoodModel                         *)

\* The sum over reads of log(sum over the members h of the genotype of
\* P(read | h)) - log(ploidy).
general_log_likelihood(table, g) ==
    accumulate([i \in ModelReads |->
        minus_ln_ploidy(log_sum_exp_all([k \in DOMAIN g |-> table[g[k]][i]]), Len(g))])

\* C18: for every triploid genotype (homozygous, two copies of one haplotype and
\* one of another, or three distinct haplotypes) log_likelihood equals the
\* general formula: the sum over reads of log(sum over the three members h of
\* P(r | h)) - log 3.
C18_TriploidGeneralFormula ==
    (pcModel = "evaluated" /\ ploidy_ = 3)
        => log_likelihood_result
               = general_log_likelihood(haplotype_likelihoods_, evaluated_genotype)

----------------------------------------------------------------------------
(* Claims about generate_all_haplotypes                                    *)

generate_returned == pcGenerate = "returned"

----------------------------------------------------------------------------
(* Claims about fetch_reads                                                *)

reads_fetched == pcReads \in {"fetched", "refetched"}

----------------------------------------------------------------------------
(* Claims about generate_phase_complement_sets                             *)

complement_returned == pcComplement = "returned"

\* The classes that hold the genotype, each counted as often as it holds it.
holders(genotype) ==
    {<<c, i>> \in (DOMAIN complement_sets) \X (1..Len(complement_genotypes)) :
        i \in DOMAIN complement_sets[c] /\ complement_sets[c][i] = genotype}

RECURSIVE sum_of_lengths(_)
sum_of_lengths(sets) ==
    IF sets = <<>> THEN 0 ELSE Len(sets[1]) + sum_of_lengths(Tail(sets))

\* C22: generate_phase_complement_sets partitions the genotypes it is given:
\* every genotype is in exactly one returned class, the class sizes sum to the
\* number of genotypes, and two genotypes are in one class exactly if they are
\* equal in every partition region of the range.
C22_PhaseComplementClasses ==
    complement_returned
        => /\ \A i \in DOMAIN complement_genotypes :
                  Cardinality(holders(complement_genotypes[i])) = 1
           /\ sum_of_lengths(complement_sets) = Len(complement_genotypes)
           /\ \A i, j \in DOMAIN complement_genotypes :
                  (\E c \in DOMAIN complement_sets :
                       /\ complement_genotypes[i] \in Range(complement_sets[c])
                       /\ complement_genotypes[j] \in Range(complement_sets[c]))
                  <=> \A region \in regions_of(complement_range) :
                          are_equal_in_region(complement_genotypes[i],
                                              complement_genotypes[j], region)

\* Two genotypes that differ only in phase share a class, and a third, equal to
\* them in the first region only, has its own.
C22_Witness ==
    /\ complement_returned
    /\ complement_range = [first |-> 1, last |-> 3]
    /\ Len(complement_genotypes) = 3
    /\ Len(complement_sets) = 2
    /\ \E c \in DOMAIN complement_sets : Len(complement_sets[c]) = 2
    /\ \A i, j \in DOMAIN complement_genotypes :
           are_equal_in_region(complement_genotypes[i], complement_genotypes[j], 1)

----------------------------------------------------------------------------
(* Claims about the loop of force_phase_sample                             *)

in_split_loop == pcPhaser = "loop"

\* The edges of the run the loop is at: the right edge is beyond the left edge,
\* or the left edge is at the end of the partitions.
edges_in_order ==
    /\ first_partition \in 1..(Len(partitions) + 1)
    /\ last_partition \in 1..(Len(partitions) + 1)
    /\ first_partition = Len(partitions) + 1 \/ first_partition < last_partition

\* One iteration moves the right edge left by one, or moves the left edge right.
edge_step ==
    (in_split_loop /\ in_split_loop')
        => \/ first_partition' = first_partition /\ last_partition' = last_partition - 1
           \/ first_partition' > first_partition

\* C23: the loop of force_phase_sample terminates when at least two partitions
\* are given: every iteration moves the right edge left by one, never to or
\* below the left edge, or strictly advances the left edge, and the loop is left
\* once the left edge is at the end of the partitions.
C23_SplitLoopTerminates ==
    /\ [](in_split_loop => (Len(partitions) >= 2 /\ edges_in_order))
    /\ [][edge_step]_vars
    /\ (in_split_loop ~> ~in_split_loop)

C23_Witness ==
    /\ force_phase_returned
    /\ Len(partitions) = 3
    /\ \E s \in DOMAIN phase_regions :
           /\ Len(phase_regions[s]) = 3
           /\ Cardinality(phase_score_log[s]) = 6

\* The sample's regions are those of a split: its full partition list scored
\* below min_phase_score.
is_split(s) == scored_below(s, 1, Len(partitions) + 1)

contains_region(outer, inner) == outer.begin <= inner.begin /\ inner.end <= outer.end

\* C24: in the split case the returned regions are consecutive, disjoint,
\* non-empty runs of the partitions, in increasing order, that together hold
\* every partition exactly once.
C24_SplitCoversPartitions ==
    (force_phase_returned /\ ~is_unsplittable)
        => \A s \in DOMAIN phase_regions :
               is_split(s)
                   => LET regions == phase_regions[s]
                      IN /\ \A i \in DOMAIN partitions :
                                Cardinality({k \in DOMAIN regions :
                                    contains_region(regions[k].region, partitions[i])}) = 1
                         /\ \A k \in DOMAIN regions :
                                /\ \E i \in DOMAIN partitions :
                                       partitions[i].begin = regions[k].region.begin
                                /\ \E i \in DOMAIN partitions :
                                       partitions[i].end = regions[k].region.end
                                /\ \E i \in DOMAIN partitions :
                                       contains_region(regions[k].region, partitions[i])
                         /\ \A k \in 1..(Len(regions) - 1) :
                                /\ regions[k].region.end <= regions[k + 1].region.begin
                                /\ right_edge(regions[k].region)
                                       = left_edge(regions[k + 1].region)

C24_Witness ==
    /\ force_phase_returned
    /\ Len(partitions) = 3
    /\ \E s \in DOMAIN phase_regions :
           /\ is_split(s)
           /\ Len(phase_regions[s]) = 2
           /\ phase_regions[s][2].region = encompassing_region(partitions, 2, 4)

----------------------------------------------------------------------------
(* Claims on CoalescentModel                                               *)

zero_table_right ==
    \A n \in DOMAIN k_indel_zero_result_cache_ :
        \A k \in DOMAIN k_indel_zero_result_cache_[n] :
            k_indel_zero_result_cache_[n][k].has =>
                k_indel_zero_result_cache_[n][k].value =
                    coalescent(n - 1, k - 1, 0, params_.snp_heterozygosity,
                               params_.indel_heterozygosity)

zero_result_right ==
    (pcCoalescent = "evaluated" /\ site_counts.k_indel = 0) =>
        coalescent_result =
            optional(coalescent(site_counts.n, site_counts.k_snp, 0,
                                params_.snp_heterozygosity,
                                params_.indel_heterozygosity))

entries_intact ==
    \A n \in DOMAIN k_indel_zero_result_cache_ :
        \A k \in DOMAIN k_indel_zero_result_cache_[n] :
            k_indel_zero_result_cache_[n][k].has =>
                /\ n \in DOMAIN k_indel_zero_result_cache_'
                /\ k \in DOMAIN k_indel_zero_result_cache_'[n]
                /\ k_indel_zero_result_cache_'[n][k] = k_indel_zero_result_cache_[n][k]

\* C25: every evaluation with no indel site returns
\* coalescent(n, k_snp, 0, theta_snp, theta_indel) whatever was evaluated before,
\* every entry of the k_indel = 0 table holds the value of its (n, k_snp), and
\* no step, growth of the table included, changes or drops a stored entry.
C25_ZeroIndelTableTransparent ==
    [](zero_table_right /\ zero_result_right) /\ [][entries_intact]_vars

\* A row of the table grew for a larger k_snp and holds both results.
C25_Witness ==
    /\ pcCoalescent = "evaluated"
    /\ site_counts.k_indel = 0
    /\ num_evaluations = 2
    /\ \E n \in DOMAIN k_indel_zero_result_cache_ :
           /\ Len(k_indel_zero_result_cache_[n]) >= 2
           /\ site_counts.k_snp + 1 = Len(k_indel_zero_result_cache_[n])
           /\ Cardinality({k \in DOMAIN k_indel_zero_result_cache_[n] :
                              k_indel_zero_result_cache_[n][k].has}) = 2

\* The result of evaluate(k_snp, k_indel, n) computed on the site buffer with
\* no cache.
uncached_k_indel_pos(heterozygosities, sites, t) ==
    evaluate_k_indel_pos(<<>>, params_, heterozygosities, sites,
                         t.k_snp, t.k_indel, t.n).result

\* C26: every evaluation with an indel site returns what the uncached
\* computation on the current site buffer returns.
C26_IndelCacheTransparent ==
    (pcCoalescent = "evaluated" /\ site_counts.k_indel > 0) =>
        coalescent_result =
            optional(uncached_k_indel_pos(reference_base_indel_heterozygosities_,
                                          site_buffer1_, site_counts))

\* The sites of the haplotypes at the indices against the reference.
fresh_sites(indices) ==
    sorted_sites(UNION {difference(haplotypes_[indices[i]], reference_) :
                            i \in DOMAIN indices})

\* The result of an evaluation that reads nothing kept from before.
fresh_result(indices) ==
    LET sites == fresh_sites(indices)
        t == site_count_tuple(sites, indices)
    IN IF t.k_indel = 0
       THEN coalescent(t.n, t.k_snp, 0, params_.snp_heterozygosity,
                       params_.indel_heterozygosity)
       ELSE uncached_k_indel_pos(
                calculate_base_indel_heterozygosities(reference_,
                                                      params_.indel_heterozygosity),
                sites, t)

\* C27: an evaluation made after set_reference(r) reads the indel
\* heterozygosities of r and the sites of the haplotypes against r, and returns
\* what an evaluation with nothing cached returns.
C27_SetReferenceFresh ==
    (pcCoalescent = "evaluated" /\ reference_was_set) =>
        /\ reference_base_indel_heterozygosities_ =
               calculate_base_indel_heterozygosities(reference_,
                                                     params_.indel_heterozygosity)
        /\ site_buffer1_ = fresh_sites(haplotype_indices)
        /\ coalescent_result = optional(fresh_result(haplotype_indices))

----------------------------------------------------------------------------
(* Claims on re-populating the HaplotypeLikelihoodCache                    *)

\* C28: after a populate on a cache that was populated before, cache_ holds
\* exactly the haplotypes of the call with one vector per sample of the call,
\* sample_indices_ holds exactly the samples of the call, the i-th in iteration
\* order with index i (counted from 0), the vector at that index is the one of
\* that sample's reads, and read_iterators_ is empty.
C28_RepopulateReplaces ==
    (pcCache = "populated" /\ populated_before) =>
        /\ DOMAIN cache_ = Range(haplotypes)
        /\ DOMAIN sample_indices_ = {reads[k].sample : k \in 1..Len(reads)}
        /\ \A k \in 1..Len(reads) : sample_indices_[reads[k].sample] = k - 1
        /\ \A h \in DOMAIN cache_ :
               /\ Len(cache_[h]) = Len(reads)
               /\ \A k \in 1..Len(reads) :
                      /\ Len(cache_[h][k]) = Len(reads[k].reads)
                      /\ \A i \in 1..Len(reads[k].reads) :
                             cache_[h][k][i].read = reads[k].reads[i]
        /\ read_iterators_ = <<>>

\* A cache populated before holds one haplotype and two samples after the call.
C28_Witness ==
    /\ pcCache = "populated"
    /\ populated_before
    /\ Cardinality(DOMAIN cache_) = 1
    /\ Len(reads) = 2
    /\ \E k \in 1..Len(reads) : Len(reads[k].reads) >= 1

----------------------------------------------------------------------------
(* Claims on the targetted seeds                                           *)

\* generate_seeds took the weighted seeds and they were fewer than max_seeds.
targetted_seeds_added ==
    /\ pcTumour = "seeded"
    /\ ~use_exhaustive_seeds(samples_, given_genotypes, parameters_.max_seeds)
    /\ num_weighted_seeds(samples_, given_genotypes) < parameters_.max_seeds

\* C29: when the weighted seeds are fewer than max_seeds, the targetted seeds
\* appended are at most max_seeds less the weighted seeds, so that
\* generate_seeds returns at most max_seeds seeds.
C29_TargettedSeedsWithinBudget ==
    targetted_seeds_added => Len(seeds) <= parameters_.max_seeds

\* The high mass of a range seed over n of num_genotypes genotypes, and the low
\* mass of the others.
range_seed_masses(num_genotypes, n) ==
    make_range_seed_at(num_genotypes, 1, n)

\* The seed that is high on exactly the genotypes of a germline.
is_range_seed_of(seed, genotypes, germline) ==
    LET members == {i \in 1..Len(genotypes) : genotypes[i].germline = germline}
        n == Cardinality(members)
        masses == range_seed_masses(Len(genotypes), n)
    IN /\ seed.den = masses.den
       /\ \A i \in 1..Len(genotypes) :
              seed.num[i] = IF i \in members \/ n = Len(genotypes)
                            THEN masses.num[1]
                            ELSE masses.num[Len(genotypes)]

\* C30: the range seed appended after the weighted seeds, made of the germline
\* of the genotype sorted first, is high on exactly the genotypes with that
\* germline and low on all others, also when they are not stored contiguously.
C30_RangeSeedCoversGermline ==
    (targetted_seeds_added
         /\ parameters_.max_seeds - num_weighted_seeds(samples_, given_genotypes)
                < Len(given_genotypes))
        => \E i \in 1..Len(given_genotypes) :
               is_range_seed_of(seeds[num_weighted_seeds(samples_, given_genotypes) + 1],
                                given_genotypes, given_genotypes[i].germline)

====
